---------------------------- MODULE Spec2Model ----------------------------
(***************************************************************************)
(* Certificate ledger (inordon/SBK_support_cert_generator).                *)
(*                                                                         *)
(* Nine specifications over one set of variables:                          *)
(*   SpecGen  - core/generator.py: the ID generator's retry loop and the   *)
(*              parser of the expiry suffix;                               *)
(*   Spec     - core/service.py over core/database.py: the certificate     *)
(*              service and the repository on the relational store;        *)
(*   SpecApi  - core/api.py: the legacy REST create endpoint;              *)
(*   SpecBot  - bot/middleware.py, bot/main.py, bot/handlers/*: routing of *)
(*              Telegram updates through the access gates to the dialog    *)
(*              handlers;                                                  *)
(*   SpecRepo - core/database.py: create_certificate step by step, with    *)
(*              its failures;                                              *)
(*   SpecArchive - core/storage.py: the file archive next to the service;  *)
(*   SpecConfirm - bot/handlers/admin.py: the confirmation of a creation   *)
(*              handled by two tasks;                                      *)
(*   SpecIds  - two callers of a creation on one relational store;         *)
(*   SpecFn   - core/models.py, core/validators.py, config/settings.py:    *)
(*              the pure functions, one call at a time.                    *)
(*                                                                         *)
(* Strings that the code inspects character by character (certificate ids) *)
(* are sequences of one-character strings.                                 *)
(***************************************************************************)
EXTENDS Integers, Sequences, FiniteSets, TLC

VARIABLES
    today,                \* date.today(), the clock of the process
    \* ---- core/generator.py: one call of generate() ----
    gen_pc,               \* "idle" | "loop" | "returned" | "raised" | "parsed"
    gen_valid_to,         \* argument valid_to
    gen_existing,         \* argument existing_ids
    gen_attempt,          \* loop variable attempt = number of collided candidates
    gen_id,               \* the code generate() returned
    gen_extract,          \* result of the last extract_expiry_date call
    \* ---- core/database.py: the relational store ----
    certificates,         \* table certificates, in insertion order
    certificate_history,  \* table certificate_history, in insertion order
    \* ---- core/storage.py: the file archive ----
    files,                \* the files of the archive: path and document
    backup,               \* the backup file backup_certificates wrote last
    session,              \* the running call of the repository's create_certificate
    \* ---- core/service.py: the last completed service call ----
    last,
    ncalls,
    \* ---- core/api.py: the legacy REST service ----
    legacy_db,
    legacy_files,
    api_last,
    \* ---- bot: dialog state and the last dispatched update ----
    fsm,
    fsm_data,
    upd,
    \* ---- bot: the handler tasks of a confirmation delivered twice ----
    tasks,
    \* ---- core/models.py, core/validators.py: one call of a pure function ----
    fn

genVars == <<gen_pc, gen_valid_to, gen_existing, gen_attempt, gen_id, gen_extract>>
dbVars  == <<certificates, certificate_history, files>>
txVars  == <<session>>
arcVars == <<backup>>
svcVars == <<last, ncalls>>
apiVars == <<legacy_db, legacy_files, api_last>>
botVars == <<fsm, fsm_data, upd>>
taskVars == <<tasks>>
fnVars  == <<fn>>
vars    == <<today, genVars, dbVars, txVars, arcVars, svcVars, apiVars, botVars,
             taskVars, fnVars>>

-----------------------------------------------------------------------------
(* Bounds of the model *)

MaxRows      == 2      \* rows of table certificates
MaxCalls     == 3      \* service calls in one run
MaxUpdates   == 3      \* Telegram updates in one run

-----------------------------------------------------------------------------
(* Dates *)

Date(y, m, d) == [year |-> y, month |-> m, day |-> d]

DateLT(a, b) ==
    \/ a.year < b.year
    \/ a.year = b.year /\ a.month < b.month
    \/ a.year = b.year /\ a.month = b.month /\ a.day < b.day

DateLE(a, b) == a = b \/ DateLT(a, b)

NoDate == Date(0, 0, 0)

-----------------------------------------------------------------------------
(* core/generator.py *)

Characters ==
    << "A", "B", "C", "D", "E", "F", "G", "H", "I", "J", "K", "L", "M",
       "N", "O", "P", "Q", "R", "S", "T", "U", "V", "W", "X", "Y", "Z",
       "0", "1", "2", "3", "4", "5", "6", "7", "8", "9" >>

CharSet == { Characters[i] : i \in 1..Len(Characters) }

Digits == << "0", "1", "2", "3", "4", "5", "6", "7", "8", "9" >>

DigitSet == { Digits[i] : i \in 1..10 }

DigitValue(c) == (CHOOSE i \in 1..10 : Digits[i] = c) - 1

max_attempts == 1000

\* f"{n:02d}" for 0 <= n <= 99
Format02d(n) == << Digits[(n \div 10) + 1], Digits[(n % 10) + 1] >>

\* variant: the two-digit year ahead of the month
format_month_year_yymm(valid_to) ==
    Format02d(valid_to.year % 100) \o Format02d(valid_to.month)

format_month_year(valid_to) ==
    Format02d(valid_to.month) \o Format02d(valid_to.year % 100)

\* the symbols of self.characters the random source of the model draws
RandChars == { "A", "7" }

\* random.choices(self.characters, k=k): the draws the model enumerates are
\* the k-fold repetitions of one symbol of RandChars
random_choices(k) == { [i \in 1..k |-> c] : c \in RandChars }

generate_block == random_choices(5)

last_block_prefix == random_choices(2)

generate_id_with_suffix(suffix, first_block, second_block, third_block, prefix) ==
    LET last_block == prefix \o suffix
    IN  first_block \o <<"-">> \o second_block \o <<"-">> \o third_block
            \o <<"-">> \o last_block

\* every value one call of _generate_id_with_suffix(suffix) can return
CandidateIds(suffix) ==
    { generate_id_with_suffix(suffix, b1, b2, b3, p) :
        b1 \in generate_block, b2 \in generate_block,
        b3 \in generate_block, p \in last_block_prefix }

\* variant: the candidate is returned without the membership test
IsUnique_unchecked(certificate_id, existing_ids) == TRUE

\* the test "certificate_id not in existing_ids" of generate()
IsUnique(certificate_id, existing_ids) == certificate_id \notin existing_ids

\* str.count(c)
Count(s, c) == Cardinality({ i \in 1..Len(s) : s[i] = c })

\* str.split(sep)
RECURSIVE Split(_, _)
Split(s, sep) ==
    IF \A i \in 1..Len(s) : s[i] # sep
    THEN << s >>
    ELSE LET i == CHOOSE k \in 1..Len(s) :
                     s[k] = sep /\ \A j \in 1..(k - 1) : s[j] # sep
         IN  << SubSeq(s, 1, i - 1) >> \o Split(SubSeq(s, i + 1, Len(s)), sep)

validate_id_format(certificate_id) ==
    IF Len(certificate_id) = 0 \/ Len(certificate_id) # 23
    THEN FALSE
    ELSE LET parts == Split(certificate_id, "-")
         IN  IF Len(parts) # 4
             THEN FALSE
             ELSE \A n \in 1..4 :
                      /\ Len(parts[n]) = 5
                      /\ \A k \in 1..Len(parts[n]) : parts[n][k] \in CharSet

\* int(s) for a two-character string s over the symbols of the model:
\* two digits, or a sign followed by one digit; anything else is a ValueError
IntOk(s) ==
    \/ s[1] \in DigitSet /\ s[2] \in DigitSet
    \/ s[1] \in {"-", "+"} /\ s[2] \in DigitSet

IntValue(s) ==
    IF s[1] = "-" THEN 0 - DigitValue(s[2])
    ELSE IF s[1] = "+" THEN DigitValue(s[2])
    ELSE 10 * DigitValue(s[1]) + DigitValue(s[2])

\* extract_expiry_date: [raised |-> TRUE] stands for GenerationError
extract_expiry_date(certificate_id, current_date) ==
    IF Len(certificate_id) # 23 \/ Count(certificate_id, "-") # 3
    THEN [raised |-> TRUE, month |-> 0, year |-> 0]
    ELSE LET suffix == SubSeq(certificate_id, Len(certificate_id) - 3, Len(certificate_id))
             m2 == SubSeq(suffix, 1, 2)
             y2 == SubSeq(suffix, 3, 4)
         IN  IF ~ (IntOk(m2) /\ IntOk(y2))
             THEN [raised |-> TRUE, month |-> 0, year |-> 0]
             ELSE LET month == IntValue(m2)
                      year_short == IntValue(y2)
                      current_year == current_date.year
                      year == IF year_short <= (current_year % 100)
                              THEN 2000 + year_short
                              ELSE 1900 + year_short
                  IN  IF ~ (1 <= month /\ month <= 12)
                      THEN [raised |-> TRUE, month |-> 0, year |-> 0]
                      ELSE [raised |-> FALSE, month |-> month, year |-> year]

-----------------------------------------------------------------------------
(* Input domains of the generator *)

TodaySet == { Date(2026, 11, 1) }

ValidToSet ==
    { Date(2024, 5, 31), Date(2026, 12, 31), Date(2027, 5, 31), Date(2031, 10, 1) }

\* ids handed to extract_expiry_date besides generated ones
\* (tests/test_basic.py: the 25-character sample of test_extract_expiry_date,
\* and 23-character ids of the documented shape)
ExampleIds ==
    { << "A","1","B","2","C","-","D","3","E","4","F","-","G","5","H","6","I","-",
         "J","7","K","0","5","2","4" >>,
      << "A","1","B","2","C","-","D","3","E","4","F","-","G","5","H","6","I","-",
         "J","0","5","2","4" >>,
      << "A","1","B","2","C","-","D","3","E","4","F","-","G","5","H","6","I","-",
         "J","1","2","2","7" >>,
      << "A","1","B","2","C","-","D","3","E","4","F","-","G","5","H","6","I","-",
         "J","7","K","8","0" >>,
      << "A","1","B","2","C","-","D","3","E","4","F","-","G","5","H","6","I","-",
         "J","1","3","2","4" >>,
      << "A","1","B","2","C","-","D","3","E","4","F","-","G","5","H","6","-","-",
         "J","0","5","-","4" >>,
      << "S","H","O","R","T" >> }

AllCandidateIds == UNION { CandidateIds(format_month_year(d)) : d \in ValidToSet }

\* the sets of existing ids a caller passes: none, every code of one expiry
\* month (generate_examples accumulates such sets), every such code but one,
\* or every code of every month
ExistingIdSets ==
    { {} }
        \cup { CandidateIds(format_month_year(d)) : d \in ValidToSet }
        \cup { CandidateIds(format_month_year(d)) \ {c} :
                   d \in ValidToSet, c \in AllCandidateIds }
        \cup { AllCandidateIds }

NoExtract == [id |-> <<>>, raised |-> FALSE, month |-> 0, year |-> 0]

-----------------------------------------------------------------------------
(* Conversions between Telegram user ids and their text *)

\* str(n) for n >= 0
RECURSIVE StrOfInt(_)
StrOfInt(n) ==
    IF n < 10 THEN << Digits[n + 1] >>
    ELSE StrOfInt(n \div 10) \o << Digits[(n % 10) + 1] >>

\* int(s) for a non-empty string of digits
RECURSIVE IntOfStr(_)
IntOfStr(s) ==
    IF Len(s) = 1 THEN DigitValue(s[1])
    ELSE 10 * IntOfStr(SubSeq(s, 1, Len(s) - 1)) + DigitValue(s[Len(s)])

\* "int(created_by) if created_by else 0", 0 on ValueError
created_by_int(created_by) ==
    IF Len(created_by) = 0 THEN 0
    ELSE IF \A i \in 1..Len(created_by) : created_by[i] \in DigitSet
         THEN IntOfStr(created_by)
         ELSE 0

-----------------------------------------------------------------------------
(* core/database.py: tables and repository *)

\* the mapped columns of class Certificate
CertificateColumns ==
    { "id", "certificate_id", "domain", "inn", "valid_from", "valid_to",
      "users_count", "created_at", "created_by", "is_active" }

\* the nullable=False columns that have no default
RequiredColumns ==
    { "certificate_id", "domain", "inn", "valid_from", "valid_to",
      "users_count", "created_by" }

\* certificate_id = Column(String(23), unique=True, nullable=False)
certificate_id_length == 23

NoRow ==
    [ id |-> 0, certificate_id |-> <<>>, domain |-> "", inn |-> "",
      valid_from |-> NoDate, valid_to |-> NoDate, users_count |-> 0,
      created_at |-> 0, created_by |-> <<>>, is_active |-> FALSE ]

\* CertificateHistory(certificate_id, action, performed_by=str(user_id), details)
history_record(certificate_id, action, user_id, details) ==
    [ certificate_id |-> certificate_id, action |-> action,
      performed_by |-> user_id, details |-> details ]

\* variant: the history row is not added
add_history_record_skipped(hist, certificate_id, action, user_id, details) == hist

\* _add_history_record followed by the commit of its caller
add_history_record(hist, certificate_id, action, user_id, details) ==
    Append(hist, history_record(certificate_id, action, user_id, details))

\* variant: the column certificate_id is not unique
repo_create_certificate_not_unique(certs, hist, certificate_data) ==
    LET failed(e) == [ raised |-> e, certificate |-> NoRow,
                       certificates |-> certs, certificate_history |-> hist ]
    IN  IF ~ (DOMAIN certificate_data \subseteq CertificateColumns)
        THEN failed("TypeError")
        ELSE IF ~ (RequiredColumns \subseteq DOMAIN certificate_data)
        THEN failed("IntegrityError")
        ELSE IF Len(certificate_data.certificate_id) > certificate_id_length
        THEN failed("DataError")
        ELSE LET certificate ==
                     [ id |-> Len(certs) + 1,
                       certificate_id |-> certificate_data.certificate_id,
                       domain |-> certificate_data.domain,
                       inn |-> certificate_data.inn,
                       valid_from |-> certificate_data.valid_from,
                       valid_to |-> certificate_data.valid_to,
                       users_count |-> certificate_data.users_count,
                       created_at |-> Len(certs) + 1,
                       created_by |-> certificate_data.created_by,
                       is_active |-> IF "is_active" \in DOMAIN certificate_data
                                     THEN certificate_data.is_active
                                     ELSE TRUE ]
             IN  [ raised |-> "none", certificate |-> certificate,
                   certificates |-> Append(certs, certificate),
                   certificate_history |->
                       Append(hist, [ certificate_id |-> certificate.certificate_id,
                                      action |-> "created",
                                      performed_by |-> certificate.created_by,
                                      details |-> [ domain |-> certificate.domain,
                                                    inn |-> certificate.inn ] ]) ]

\* CertificateRepository.create_certificate.  The constructor of a declarative
\* class raises TypeError for a keyword that is not a mapped attribute; the
\* INSERT fails on a missing NOT NULL value, on a certificate_id longer than
\* the column and on a certificate_id already stored.  id and created_at are
\* given by their defaults (uuid4, now()): the row's position in the table.
repo_create_certificate(certs, hist, certificate_data) ==
    LET failed(e) == [ raised |-> e, certificate |-> NoRow,
                       certificates |-> certs, certificate_history |-> hist ]
    IN  IF ~ (DOMAIN certificate_data \subseteq CertificateColumns)
        THEN failed("TypeError")
        ELSE IF ~ (RequiredColumns \subseteq DOMAIN certificate_data)
        THEN failed("IntegrityError")
        ELSE IF Len(certificate_data.certificate_id) > certificate_id_length
        THEN failed("DataError")
        ELSE IF \E i \in 1..Len(certs) :
                    certs[i].certificate_id = certificate_data.certificate_id
        THEN failed("IntegrityError")
        ELSE LET certificate ==
                     [ id |-> Len(certs) + 1,
                       certificate_id |-> certificate_data.certificate_id,
                       domain |-> certificate_data.domain,
                       inn |-> certificate_data.inn,
                       valid_from |-> certificate_data.valid_from,
                       valid_to |-> certificate_data.valid_to,
                       users_count |-> certificate_data.users_count,
                       created_at |-> Len(certs) + 1,
                       created_by |-> certificate_data.created_by,
                       is_active |-> IF "is_active" \in DOMAIN certificate_data
                                     THEN certificate_data.is_active
                                     ELSE TRUE ]
             IN  [ raised |-> "none", certificate |-> certificate,
                   certificates |-> Append(certs, certificate),
                   certificate_history |->
                       add_history_record(hist, certificate.certificate_id, "created",
                           certificate.created_by,
                           [ domain |-> certificate.domain, inn |-> certificate.inn ]) ]

\* no call of create_certificate is running; n counts the calls begun
NoSession == [ pc |-> "idle", n |-> 0, certificate |-> NoRow, raised |-> "none" ]

\* query(...).filter(certificate_id == ...).first(): << >> stands for None
get_certificate_by_id(certs, certificate_id) ==
    LET found == SelectSeq(certs, LAMBDA c : c.certificate_id = certificate_id)
    IN  IF found = << >> THEN << >> ELSE << Head(found) >>

\* list.reverse
Reverse(s) == [ i \in 1..Len(s) |-> s[Len(s) + 1 - i] ]

\* rows of a domain, newest first (order_by created_at.desc())
get_certificates_by_domain(certs, domain, active_only) ==
    Reverse(SelectSeq(certs,
        LAMBDA c : c.domain = domain /\ (active_only => c.is_active)))

\* rows of an INN, newest first
get_certificates_by_inn(certs, inn, active_only) ==
    Reverse(SelectSeq(certs,
        LAMBDA c : c.inn = inn /\ (active_only => c.is_active)))

\* rows created by a user (created_by == str(user_id)), newest first
get_certificates_by_user(certs, user_id, active_only) ==
    Reverse(SelectSeq(certs,
        LAMBDA c : c.created_by = user_id /\ (active_only => c.is_active)))

\* CertificateRepository.get_statistics
repo_get_statistics(certs, current_date) ==
    LET count(P(_)) == Len(SelectSeq(certs, P))
        total_certificates == Len(certs)
        active_certificates == count(LAMBDA c : c.is_active)
    IN  [ total_certificates |-> total_certificates,
          active_certificates |-> active_certificates,
          expired_certificates |->
              count(LAMBDA c : DateLT(c.valid_to, current_date) /\ c.is_active),
          inactive_certificates |-> total_certificates - active_certificates ]

get_existing_certificate_ids(certs) ==
    { certs[i].certificate_id : i \in 1..Len(certs) }

\* variant: the row is deleted
repo_deactivate_certificate_hard_delete(certs, hist, certificate_id, user_id) ==
    IF \E i \in 1..Len(certs) : certs[i].certificate_id = certificate_id
    THEN [ result |-> TRUE,
           certificates |->
               SelectSeq(certs, LAMBDA c : c.certificate_id # certificate_id),
           certificate_history |->
               add_history_record(hist, certificate_id, "deactivated", user_id, << >>) ]
    ELSE [ result |-> FALSE, certificates |-> certs, certificate_history |-> hist ]

\* CertificateRepository.deactivate_certificate: the first row of that id
repo_deactivate_certificate(certs, hist, certificate_id, user_id) ==
    IF \E i \in 1..Len(certs) : certs[i].certificate_id = certificate_id
    THEN LET i == CHOOSE k \in 1..Len(certs) :
                      /\ certs[k].certificate_id = certificate_id
                      /\ \A j \in 1..(k - 1) : certs[j].certificate_id # certificate_id
         IN  [ result |-> TRUE,
               certificates |-> [ certs EXCEPT ![i].is_active = FALSE ],
               certificate_history |->
                   add_history_record(hist, certificate_id, "deactivated", user_id, << >>) ]
    ELSE [ result |-> FALSE, certificates |-> certs, certificate_history |-> hist ]

add_verification_record(hist, certificate_id, user_id, details) ==
    add_history_record(hist, certificate_id, "verified", user_id, details)

\* rows of one certificate, newest first (order_by performed_at.desc())
get_certificate_history(hist, certificate_id) ==
    Reverse(SelectSeq(hist, LAMBDA h : h.certificate_id = certificate_id))
-----------------------------------------------------------------------------
(* core/models.py, core/storage.py, core/service.py *)

NoCertificate ==
    [ id |-> << >>, certificate_id |-> << >>, domain |-> "", inn |-> "",
      valid_from |-> NoDate, valid_to |-> NoDate, users_count |-> 0,
      created_at |-> 0, created_by |-> 0, created_by_username |-> "None",
      created_by_full_name |-> "None", is_active |-> FALSE ]

\* CertificateService._convert_db_to_pydantic: models.Certificate requires a
\* certificate_id of exactly 23 characters (pydantic ValidationError, which is
\* not core.exceptions.ValidationError); a row has no created_by_username and
\* no created_by_full_name attribute, so getattr gives None
convert_db_to_pydantic(db_certificate) ==
    IF Len(db_certificate.certificate_id) # 23
    THEN [ raised |-> TRUE, certificate |-> NoCertificate ]
    ELSE [ raised |-> FALSE,
           certificate |->
               [ id |-> StrOfInt(db_certificate.id),
                 certificate_id |-> db_certificate.certificate_id,
                 domain |-> db_certificate.domain,
                 inn |-> db_certificate.inn,
                 valid_from |-> db_certificate.valid_from,
                 valid_to |-> db_certificate.valid_to,
                 users_count |-> db_certificate.users_count,
                 created_at |-> db_certificate.created_at,
                 created_by |-> created_by_int(db_certificate.created_by),
                 created_by_username |-> "None",
                 created_by_full_name |-> "None",
                 is_active |-> db_certificate.is_active ] ]

\* models.Certificate.to_dict, the keys that do not depend on date.today():
\* valid_from and valid_to leave as the text validity_period, created_by as
\* text, created_at as isoformat text (its year is the year of creation);
\* id, created_by_username and created_by_full_name are not exported
to_dict(certificate, year) ==
    [ certificate_id |-> certificate.certificate_id,
      domain |-> certificate.domain,
      inn |-> certificate.inn,
      validity_period |-> << certificate.valid_from, certificate.valid_to >>,
      users_count |-> certificate.users_count,
      created_at |-> [ year |-> year, at |-> certificate.created_at ],
      created_by |-> StrOfInt(certificate.created_by),
      is_active |-> certificate.is_active ]

\* variant: the document is filed under the INN in place of the domain
save_certificate_domain_lost(fs, certificate, year) ==
    LET path == << year, certificate.domain, certificate.certificate_id >>
    IN  { f \in fs : f.path # path }
            \cup { [ path |-> path,
                     data |-> [ to_dict(certificate, year) EXCEPT
                                  !.domain = certificate.inn ] ] }

\* FileStorage.save_certificate: certificates/<year>/<domain>_<certificate_id>.json
\* holding certificate.to_dict(), year being certificate.created_at.year; a
\* file of the same path is overwritten
save_certificate(fs, certificate, year) ==
    LET path == << year, certificate.domain, certificate.certificate_id >>
    IN  { f \in fs : f.path # path }
            \cup { [ path |-> path, data |-> to_dict(certificate, year) ] }

\* json.load of no file: load_certificate returns None
NoDocument ==
    [ certificate_id |-> << >>, domain |-> "", inn |-> "",
      validity_period |-> << NoDate, NoDate >>, users_count |-> 0,
      created_at |-> [ year |-> 0, at |-> 0 ], created_by |-> << >>,
      is_active |-> FALSE ]

\* the files year_dir.glob(f"*_{certificate_id}.json") yields over all year
\* directories
glob_certificate_id(fs, certificate_id) ==
    { f \in fs : f.path[3] = certificate_id }

\* FileStorage.load_certificate: the document of the first file found;
\* iterdir and glob yield in no order that the code fixes, so every file of
\* the id is a possible result
load_certificate(fs, certificate_id) ==
    IF glob_certificate_id(fs, certificate_id) = {}
    THEN { NoDocument }
    ELSE { f.data : f \in glob_certificate_id(fs, certificate_id) }

\* FileStorage.delete_certificate: unlinks the first file found and returns
\* True; "" stands for domain = None
delete_certificate(fs, certificate_id, domain) ==
    LET matches == { f \in glob_certificate_id(fs, certificate_id) :
                         domain # "" => f.path[2] = domain }
    IN  IF matches = {}
        THEN { [ result |-> FALSE, files |-> fs ] }
        ELSE { [ result |-> TRUE, files |-> fs \ { f } ] : f \in matches }

\* FileStorage.get_all_certificates: the documents of all files
get_all_certificates(fs) == { f.data : f \in fs }

\* no backup file is written
NoBackup == [ written |-> FALSE, total_certificates |-> 0, certificates |-> {} ]

\* FileStorage.backup_certificates: the content of the backup file
backup_certificates(fs) ==
    LET all_certificates == get_all_certificates(fs)
    IN  [ written |-> TRUE,
          total_certificates |-> Cardinality(all_certificates),
          certificates |-> all_certificates ]

\* the file restore_from_backup writes for one document of the backup
restored_file(cert_data) ==
    [ path |-> << cert_data.created_at.year, cert_data.domain,
                  cert_data.certificate_id >>,
      data |-> cert_data ]

\* FileStorage.restore_from_backup: StorageError when the backup file cannot
\* be opened; one file per document, a file of the same path is overwritten
restore_from_backup(fs, backup_data) ==
    IF ~ backup_data.written
    THEN [ raised |-> "StorageError", restored_count |-> 0, files |-> fs ]
    ELSE LET restored == { restored_file(d) : d \in backup_data.certificates }
         IN  [ raised |-> "none",
               restored_count |-> Cardinality(backup_data.certificates),
               files |-> { f \in fs : \A r \in restored : r.path # f.path }
                             \cup restored ]

\* FileStorage.cleanup_old_files: unlinks the files modified before
\* now - days_old.  Every file of the model was written on the day `today`,
\* before the call: none is older than a day, all are older than no time
cleanup_old_files(fs, days_old) ==
    IF days_old = 0
    THEN [ deleted_count |-> Cardinality(fs), files |-> {} ]
    ELSE [ deleted_count |-> 0, files |-> fs ]

\* database.Certificate.to_dict, the keys that do not depend on date.today()
db_to_dict(db_certificate, year) ==
    [ id |-> StrOfInt(db_certificate.id),
      certificate_id |-> db_certificate.certificate_id,
      domain |-> db_certificate.domain,
      inn |-> db_certificate.inn,
      valid_from |-> db_certificate.valid_from,
      valid_to |-> db_certificate.valid_to,
      validity_period |-> << db_certificate.valid_from, db_certificate.valid_to >>,
      users_count |-> db_certificate.users_count,
      created_at |-> [ year |-> year, at |-> db_certificate.created_at ],
      created_by |-> db_certificate.created_by,
      is_active |-> db_certificate.is_active ]

\* CertificateStorageManager.sync_database_to_files: save_certificate for
\* every row of the table, the rows being database.Certificate objects
RECURSIVE sync_database_to_files(_, _, _)
sync_database_to_files(certs, fs, year) ==
    IF certs = << >>
    THEN [ synced_count |-> 0, files |-> fs ]
    ELSE LET c == Head(certs)
             path == << year, c.domain, c.certificate_id >>
             saved == { f \in fs : f.path # path }
                          \cup { [ path |-> path, data |-> db_to_dict(c, year) ] }
             rest == sync_database_to_files(Tail(certs), saved, year)
         IN  [ synced_count |-> rest.synced_count + 1, files |-> rest.files ]

\* CertificateStorageManager.save_certificate_complete: a failure of the file
\* write (file_ok = FALSE) is recorded in the result and not raised
save_certificate_complete(fs, certificate, year, file_ok) ==
    IF file_ok THEN save_certificate(fs, certificate, year) ELSE fs

\* CertificateIDGenerator.generate as one step: every value the retry loop can
\* return, and GenerationError when max_attempts candidates in a row can collide
generate(valid_to, existing_ids) ==
    LET candidates == CandidateIds(format_month_year(valid_to))
    IN  { [ raised |-> FALSE, certificate_id |-> c] :
              c \in { x \in candidates : IsUnique(x, existing_ids) } }
        \cup { [ raised |-> TRUE, certificate_id |-> << >> ] :
                   c \in { x \in candidates : ~ IsUnique(x, existing_ids) } }

\* CertificateService.create_certificate: the set of its possible results.
\* TypeError, DataError, IntegrityError and pydantic's ValidationError are
\* none of ValidationError, GenerationError, DatabaseError and leave wrapped
\* in DatabaseError.
create_certificate(certs, hist, fs, request, current_date) ==
    LET existing_certificates == get_certificates_by_domain(certs, request.domain, TRUE)
        has_existing == Len(existing_certificates) > 0
        existing_ids == get_existing_certificate_ids(certs)
        result(outcome, inner, certificate, c, h, f, file_write) ==
            [ outcome |-> outcome, inner |-> inner, certificate |-> certificate,
              has_existing |-> has_existing,
              certificates |-> c, certificate_history |-> h, files |-> f,
              file_write |-> file_write ]
        after_generate(g) ==
            IF g.raised
            THEN { result("GenerationError", "GenerationError", NoCertificate,
                          certs, hist, fs,
                          "not_attempted") }
            ELSE LET db_certificate_data ==
                         [ certificate_id |-> g.certificate_id,
                           domain |-> request.domain,
                           inn |-> request.inn,
                           valid_from |-> request.valid_from,
                           valid_to |-> request.valid_to,
                           users_count |-> request.users_count,
                           created_by |-> StrOfInt(request.created_by),
                           created_by_username |-> request.created_by_username,
                           created_by_full_name |-> request.created_by_full_name,
                           is_active |-> TRUE ]
                     r == repo_create_certificate(certs, hist, db_certificate_data)
                     p == convert_db_to_pydantic(r.certificate)
                 IN  IF r.raised # "none"
                     THEN { result("DatabaseError", r.raised, NoCertificate,
                                   certs, hist, fs, "not_attempted") }
                     ELSE IF p.raised
                     THEN { result("DatabaseError", "PydanticValidationError",
                                   NoCertificate,
                                   r.certificates, r.certificate_history, fs,
                                   "not_attempted") }
                     ELSE { result("ok", "none", p.certificate, r.certificates,
                                   r.certificate_history,
                                   save_certificate_complete(fs, p.certificate,
                                       current_date.year, file_ok),
                                   IF file_ok THEN "written" ELSE "failed") :
                                file_ok \in BOOLEAN }
    IN  UNION { after_generate(g) : g \in generate(request.valid_to, existing_ids) }

\* CertificateService.verify_certificate
verify_certificate(certs, hist, certificate_id, user_id, current_date) ==
    IF ~ validate_id_format(certificate_id)
    THEN [ outcome |-> "ValidationError", inner |-> "ValidationError",
           certificate |-> NoCertificate, certificate_history |-> hist ]
    ELSE LET db_certificate == get_certificate_by_id(certs, certificate_id)
         IN  IF db_certificate = << >>
             THEN [ outcome |-> "None", inner |-> "none",
                    certificate |-> NoCertificate, certificate_history |-> hist ]
             ELSE LET h == add_verification_record(hist, certificate_id,
                               StrOfInt(user_id), [ verified_at |-> current_date ])
                      p == convert_db_to_pydantic(db_certificate[1])
                  IN  IF p.raised
                      THEN [ outcome |-> "DatabaseError",
                             inner |-> "PydanticValidationError",
                             certificate |-> NoCertificate,
                             certificate_history |-> h ]
                      ELSE [ outcome |-> "ok", inner |-> "none",
                             certificate |-> p.certificate,
                             certificate_history |-> h ]

\* CertificateService.deactivate_certificate
deactivate_certificate(certs, hist, certificate_id, user_id) ==
    repo_deactivate_certificate(certs, hist, certificate_id, StrOfInt(user_id))

\* CertificateService.edit_certificate_dates.  For a stored id the method
\* goes on to self.certificate_repo.update_certificate_dates(...):
\* CertificateRepository defines no attribute of that name, the lookup raises
\* AttributeError, which is none of CertificateNotFoundError, ValidationError
\* and DatabaseError and leaves wrapped in DatabaseError.  Nothing is
\* written, and the file archive is not reached.
edit_certificate_dates(certs, hist, fs, edit_request) ==
    LET db_certificate == get_certificate_by_id(certs, edit_request.certificate_id)
    IN  [ outcome |-> IF db_certificate = << >>
                      THEN "CertificateNotFoundError"
                      ELSE "DatabaseError",
          inner |-> IF db_certificate = << >>
                    THEN "CertificateNotFoundError"
                    ELSE "AttributeError",
          certificate |-> NoCertificate,
          certificates |-> certs, certificate_history |-> hist, files |-> fs,
          file_write |-> "not_attempted" ]
-----------------------------------------------------------------------------
(* config/settings.py: the configured roles, and the senders of the model *)

AdminUsers == { 101 }

VerifyUsers == { 202 }

\* an admin, a verify-only user and a user of neither set
Users == { 101, 202, 303 }

\* variant: verify users pass as admins
is_admin_or_verify(user_id) == user_id \in AdminUsers \/ user_id \in VerifyUsers

is_admin(user_id) == user_id \in AdminUsers

is_verify_user(user_id) == user_id \in VerifyUsers \/ user_id \in AdminUsers

\* variant: every sender is allowed
is_allowed_user_anyone(user_id) == user_id = user_id

is_allowed_user(user_id) == user_id \in (AdminUsers \cup VerifyUsers)

-----------------------------------------------------------------------------
(* Texts of messages *)

LowerChars ==
    << "a", "b", "c", "d", "e", "f", "g", "h", "i", "j", "k", "l", "m",
       "n", "o", "p", "q", "r", "s", "t", "u", "v", "w", "x", "y", "z" >>

\* str.upper() over the symbols of the model
Upper(s) ==
    [ i \in 1..Len(s) |->
        IF \E k \in 1..Len(LowerChars) : LowerChars[k] = s[i]
        THEN Characters[CHOOSE k \in 1..Len(LowerChars) : LowerChars[k] = s[i]]
        ELSE s[i] ]

\* str.strip() over the symbols of the model
RECURSIVE Strip(_)
Strip(s) ==
    IF Len(s) = 0 THEN s
    ELSE IF s[1] = " " THEN Strip(Tail(s))
    ELSE IF s[Len(s)] = " " THEN Strip(SubSeq(s, 1, Len(s) - 1))
    ELSE s

\* Message.text: label names the button of ButtonTexts or the command the
\* text equals ("" when it equals none), chars is a free text, form the
\* certificate data parse_certificate_message reads from it
NoForm ==
    [ ok |-> FALSE, domain |-> "", inn |-> "", valid_from |-> NoDate,
      valid_to |-> NoDate, users_count |-> 0 ]

Button(label) == [ label |-> label, chars |-> << >>, form |-> NoForm ]

FreeText(chars) == [ label |-> "", chars |-> chars, form |-> NoForm ]

-----------------------------------------------------------------------------
(* Input domains of the service *)

\* a 23-character id XXXXX-XXXXX-XXXXX-XMMYY
IdOfShape(c, suffix) ==
    LET block == [ i \in 1..5 |-> c ]
    IN  block \o <<"-">> \o block \o <<"-">> \o block \o <<"-">> \o << c >> \o suffix

\* certificate ids of rows written through the repository
StoredIds ==
    { IdOfShape("A", << "1", "2", "2", "6" >>),
      IdOfShape("7", << "0", "5", "2", "7" >>) }

Domains == { "example.com", "my-site.com" }

Inns == { "7707083893" }

\* arguments of CertificateRepository.create_certificate: every key a column
RepoData(current_date) ==
    { [ certificate_id |-> id, domain |-> d, inn |-> i,
        valid_from |-> current_date, valid_to |-> Date(2026, 12, 31),
        users_count |-> 1, created_by |-> StrOfInt(u), is_active |-> TRUE ] :
          id \in StoredIds, d \in Domains, i \in Inns, u \in AdminUsers }

\* CertificateRequest objects: every one passes the validators of the class
\* (valid_from not in the past, valid_to later and at most five years later,
\* users_count >= 1)
Requests(current_date) ==
    { [ domain |-> d, inn |-> i, valid_from |-> current_date, valid_to |-> vt,
        users_count |-> 1, created_by |-> u,
        created_by_username |-> "None", created_by_full_name |-> "Admin" ] :
          d \in Domains, i \in Inns, u \in AdminUsers,
          vt \in { Date(2026, 12, 31), Date(2027, 5, 31) } }

NoRequest ==
    [ domain |-> "", inn |-> "", valid_from |-> NoDate, valid_to |-> NoDate,
      users_count |-> 0, created_by |-> 0,
      created_by_username |-> "None", created_by_full_name |-> "None" ]

\* ids handed to verify_certificate: stored shapes, a stored shape typed in
\* lower case with a blank, a 25-character code of the generator, a wrong
\* grouping, a short text
VerifyIds ==
    StoredIds
        \cup { << " " >> \o [ i \in 1..23 |->
                   IF i \in {6, 12, 18} THEN "-"
                   ELSE IF i \in 20..23 THEN << "1", "2", "2", "6" >>[i - 19]
                   ELSE "a" ],
               generate_id_with_suffix(<< "1", "2", "2", "6" >>,
                   [ i \in 1..5 |-> "A" ], [ i \in 1..5 |-> "A" ],
                   [ i \in 1..5 |-> "A" ], << "A", "A" >>),
               << "A","A","A","A","-","A","A","A","A","A","A","-","A","A","A","A","A","-",
                  "A","1","2","2","6" >>,
               << "S","H","O","R","T" >> }

\* EditCertificateDatesRequest objects: every one passes validate_dates of
\* the class (new_valid_to later than new_valid_from, at most five years
\* later); one starts before the day of TodaySet
EditRequests ==
    { [ certificate_id |-> id, new_valid_from |-> p[1], new_valid_to |-> p[2],
        edited_by |-> u, edit_reason |-> "None" ] :
          id \in StoredIds, u \in AdminUsers,
          p \in { << Date(2026, 10, 1), Date(2027, 10, 1) >>,
                  << Date(2026, 12, 1), Date(2027, 5, 31) >> } }

NoStatistics ==
    [ database |-> [ total_certificates |-> 0, active_certificates |-> 0,
                     expired_certificates |-> 0, inactive_certificates |-> 0 ],
      file_storage |-> [ total_files |-> 0, years_covered |-> {} ] ]

NoSearchRequest == [ domain |-> "", inn |-> "", active_only |-> TRUE ]

\* the last completed call: its arguments, the exception raised inside the
\* operation's try block (inner), what reached the caller (outcome) and what
\* it returned
NoLast ==
    [ op |-> "none", caller |-> "", certificate_id |-> << >>, user_id |-> 0,
      request |-> NoRequest, outcome |-> "", certificate |-> NoCertificate,
      has_existing |-> FALSE, new_valid_from |-> NoDate, new_valid_to |-> NoDate,
      archive_writable |-> TRUE, file_write |-> "not_attempted",
      inner |-> "none", search_request |-> NoSearchRequest, active_only |-> TRUE,
      found |-> << >>, archive_readable |-> TRUE, statistics |-> NoStatistics,
      document |-> NoDocument, count |-> 0, files_before |-> 0 ]

\* FSMContext data of one chat
NoData ==
    [ certificate_id |-> << >>, original_certificate |-> NoCertificate,
      form |-> NoForm, has_existing |-> FALSE ]
\* body of a request to the legacy REST service
NoApiRequest ==
    [ domain |-> "", inn |-> "",
      period |-> [ ok |-> FALSE, valid_from |-> NoDate, valid_to |-> NoDate ],
      users_count |-> 0, created_by |-> 0 ]

-----------------------------------------------------------------------------
(* core/validators.py: DataValidator.validate_all over parsed form data *)

\* date.toordinal up to a constant: days of the proleptic Gregorian calendar
Days(d) ==
    LET y == IF d.month <= 2 THEN d.year - 1 ELSE d.year
        era == y \div 400
        yoe == y - era * 400
        mp == (d.month + 9) % 12
        doy == (153 * mp + 2) \div 5 + d.day - 1
        doe == yoe * 365 + yoe \div 4 - yoe \div 100 + doy
    IN  era * 146097 + doe

\* PeriodValidator.validate: "" when the period is valid.
\* (valid_to - valid_from).days / 365.25 > 5 iff the days exceed 1826
period_validate(valid_from, valid_to, current_date) ==
    IF DateLT(valid_from, current_date) THEN "start_in_past"
    ELSE IF DateLE(valid_to, valid_from) THEN "end_not_after_start"
    ELSE IF 4 * (Days(valid_to) - Days(valid_from)) > 5 * 1461 THEN "over_5_years"
    ELSE ""

\* UsersCountValidator.validate
users_count_validate(users_count) == 1 <= users_count /\ users_count <= 1000

\* DataValidator.validate_all: the set of errors.  The domains and INNs of
\* the model are the valid values of Domains and Inns.
validate_certificate_data(form, current_date) ==
    (IF form.domain \in Domains \cup { "site.com" } THEN {} ELSE { "domain" })
        \cup (IF form.inn \in Inns THEN {} ELSE { "inn" })
        \cup (IF period_validate(form.valid_from, form.valid_to, current_date) = ""
              THEN {} ELSE { "period" })
        \cup (IF users_count_validate(form.users_count) THEN {} ELSE { "users_count" })

\* CertificateRepository.search_certificates: domain is matched with
\* ilike('%domain%'), inn with equality; "" stands for None
IsSubstring(query, domain) ==
    query = domain \/ << query, domain >> \in { << "site.com", "my-site.com" >> }

\* variant: active_only is not applied
search_certificates_inactive_too(certs, domain, inn, active_only) ==
    Reverse(SelectSeq(certs,
        LAMBDA c : /\ (domain # "" => IsSubstring(domain, c.domain))
                   /\ (inn # "" => c.inn = inn)))

search_certificates(certs, domain, inn, active_only) ==
    Reverse(SelectSeq(certs,
        LAMBDA c : /\ (domain # "" => IsSubstring(domain, c.domain))
                   /\ (inn # "" => c.inn = inn)
                   /\ (active_only => c.is_active)))

-----------------------------------------------------------------------------
(* core/service.py: the reading operations *)

\* [self._convert_db_to_pydantic(db_cert) for db_cert in db_certificates]
convert_all(db_certificates) ==
    [ raised |-> \E i \in 1..Len(db_certificates) :
                     convert_db_to_pydantic(db_certificates[i]).raised,
      certificates |->
          [ i \in 1..Len(db_certificates) |->
              convert_db_to_pydantic(db_certificates[i]).certificate ] ]

\* the result of a reading operation: every exception leaves as DatabaseError
found_or_error(db_certificates) ==
    LET p == convert_all(db_certificates)
    IN  IF p.raised
        THEN [ outcome |-> "DatabaseError", inner |-> "PydanticValidationError",
               found |-> << >> ]
        ELSE [ outcome |-> "ok", inner |-> "none", found |-> p.certificates ]

\* CertificateService.search_certificates: certificate_id of the request is
\* not read
service_search_certificates(certs, search_request) ==
    found_or_error(search_certificates(certs, search_request.domain,
                       search_request.inn, search_request.active_only))

\* CertificateService.get_user_certificates
get_user_certificates(certs, user_id, active_only) ==
    found_or_error(get_certificates_by_user(certs, StrOfInt(user_id), active_only))

\* FileStorage.get_storage_stats: StorageError when the archive directory
\* cannot be listed
get_storage_stats(fs, archive_readable) ==
    IF ~ archive_readable
    THEN [ raised |-> "StorageError",
           stats |-> NoStatistics.file_storage ]
    ELSE [ raised |-> "none",
           stats |-> [ total_files |-> Cardinality(fs),
                       years_covered |-> { f.path[1] : f \in fs } ] ]

\* CertificateService.get_statistics: "except Exception" has no isinstance
\* test, the StorageError of get_storage_stats leaves as DatabaseError
get_statistics(certs, fs, current_date, archive_readable) ==
    LET db_stats == repo_get_statistics(certs, current_date)
        file_stats == get_storage_stats(fs, archive_readable)
    IN  IF file_stats.raised # "none"
        THEN [ outcome |-> "DatabaseError", inner |-> file_stats.raised,
               statistics |-> NoStatistics ]
        ELSE [ outcome |-> "ok", inner |-> "none",
               statistics |-> [ database |-> db_stats,
                                file_storage |-> file_stats.stats ] ]

\* SearchRequest objects; "" stands for None
SearchRequests ==
    { [ domain |-> d, inn |-> i, active_only |-> a ] :
          d \in { "", "example.com", "site.com" },
          i \in { "", "7707083893" }, a \in BOOLEAN }

-----------------------------------------------------------------------------
(* core/models.py: Certificate.status_info *)

\* variant: the last day of the week's notice is not very soon
status_info_under_7(valid_from, valid_to, is_active, current_date) ==
    LET days_left == Days(valid_to) - Days(current_date)
    IN  IF ~ is_active THEN [ status |-> "inactive", days_left |-> 0 ]
        ELSE IF DateLT(current_date, valid_from)
        THEN [ status |-> "not_started", days_left |-> 0 ]
        ELSE IF DateLT(valid_to, current_date)
        THEN [ status |-> "expired", days_left |-> 0 ]
        ELSE IF days_left < 7
        THEN [ status |-> "expiring_very_soon", days_left |-> days_left ]
        ELSE IF days_left <= 30
        THEN [ status |-> "expiring_soon", days_left |-> days_left ]
        ELSE [ status |-> "active", days_left |-> days_left ]

\* Certificate.status_info: the keys status and days_left of the dict
status_info(valid_from, valid_to, is_active, current_date) ==
    LET days_left == Days(valid_to) - Days(current_date)
    IN  IF ~ is_active THEN [ status |-> "inactive", days_left |-> 0 ]
        ELSE IF DateLT(current_date, valid_from)
        THEN [ status |-> "not_started", days_left |-> 0 ]
        ELSE IF DateLT(valid_to, current_date)
        THEN [ status |-> "expired", days_left |-> 0 ]
        ELSE IF days_left <= 7
        THEN [ status |-> "expiring_very_soon", days_left |-> days_left ]
        ELSE IF days_left <= 30
        THEN [ status |-> "expiring_soon", days_left |-> days_left ]
        ELSE [ status |-> "active", days_left |-> days_left ]

\* models.Certificate.is_expired
is_expired(valid_to, current_date) == DateLT(valid_to, current_date)

\* models.Certificate.days_left: 0 before valid_from and after valid_to
days_left(valid_from, valid_to, current_date) ==
    IF DateLT(current_date, valid_from) THEN 0
    ELSE IF DateLT(valid_to, current_date) THEN 0
    ELSE Days(valid_to) - Days(current_date)

\* verify.py process_certificate_verification: the remark appended to the
\* reply, chosen from is_active, is_expired and days_left of the certificate
verification_remark(valid_from, valid_to, is_active, current_date) ==
    IF ~ is_active THEN "deactivated"
    ELSE IF is_expired(valid_to, current_date) THEN "expired"
    ELSE IF days_left(valid_from, valid_to, current_date) <= 7
    THEN "expires_within_days"
    ELSE IF days_left(valid_from, valid_to, current_date) <= 30
    THEN "expires_in_days"
    ELSE "valid"

\* Settings.validate_notification_group: "ValueError" or the value accepted
validate_notification_group(v) ==
    IF v > 0 THEN "ValueError" ELSE "ok"

\* values of NOTIFICATION_GROUP: ids of groups, of no chat, of users
NotificationGroups == { 0 - 1001234567, 0 - 1, 0, 1, 1001234567 }

\* CertificateRequest.validate_period, the validator of valid_to: the error
\* it raises, "" when it returns the value.
\* (valid_to - valid_from).days / 365.25 > 5 iff 4 * days > 5 * 1461
validate_period(valid_from, valid_to, current_date) ==
    IF DateLE(valid_to, valid_from) THEN "PeriodValidationError:end_not_after_start"
    ELSE IF 4 * (Days(valid_to) - Days(valid_from)) > 5 * 1461
    THEN "PeriodValidationError:over_5_years"
    ELSE IF DateLT(valid_from, current_date) THEN "PeriodValidationError:start_in_past"
    ELSE ""

\* variant: a start date in the past is rejected as in creation
validate_dates_not_in_past(new_valid_from, new_valid_to, current_date) ==
    validate_period(new_valid_from, new_valid_to, current_date)

\* EditCertificateDatesRequest.validate_dates, the validator of new_valid_to;
\* the class does not read date.today()
validate_dates(new_valid_from, new_valid_to, current_date) ==
    IF DateLE(new_valid_to, new_valid_from) THEN "ValueError:end_not_after_start"
    ELSE IF 4 * (Days(new_valid_to) - Days(new_valid_from)) > 5 * 1461
    THEN "ValueError:over_5_years"
    ELSE ""

\* dates of periods: the day before the day of TodaySet, the day, the day
\* after, and the days 1825 to 1827 days after these
PeriodDates ==
    { Date(2026, 10, 31), Date(2026, 11, 1), Date(2026, 11, 2), Date(2027, 3, 1),
      Date(2031, 10, 31), Date(2031, 11, 1), Date(2031, 11, 2), Date(2031, 11, 3),
      Date(2032, 2, 29), Date(2032, 3, 1) }

-----------------------------------------------------------------------------
(* core/validators.py: INNValidator *)

\* a character for which str.isdigit() is true and int() raises ValueError:
\* SUPERSCRIPT TWO (U+00B2), written "^2"
SuperscriptDigits == { "^2" }

\* str.isdigit() of a non-empty string
isdigit(s) == \A i \in 1..Len(s) : s[i] \in DigitSet \cup SuperscriptDigits

\* sum(int(inn[i]) * coefficients[i] for i in range(n))
RECURSIVE checksum(_, _, _)
checksum(inn, coefficients, n) ==
    IF n = 0 THEN 0
    ELSE checksum(inn, coefficients, n - 1) + DigitValue(inn[n]) * coefficients[n]

\* INNValidator._validate_inn_10: "True", "False", or the ValueError of int()
validate_inn_10(inn) ==
    LET coefficients == << 2, 4, 10, 3, 5, 9, 4, 6, 8 >>
    IN  IF \E i \in 1..10 : inn[i] \notin DigitSet THEN "ValueError"
        ELSE LET control_digit == (checksum(inn, coefficients, 9) % 11) % 10
             IN  IF DigitValue(inn[10]) = control_digit THEN "True" ELSE "False"

\* variant: only the second check digit of a 12-digit number is tested
validate_inn_12_second_only(inn) ==
    LET coefficients_2 == << 3, 7, 2, 4, 10, 3, 5, 9, 4, 6, 8 >>
    IN  IF \E i \in 1..12 : inn[i] \notin DigitSet THEN "ValueError"
        ELSE LET control_digit_2 == (checksum(inn, coefficients_2, 11) % 11) % 10
             IN  IF DigitValue(inn[12]) = control_digit_2 THEN "True" ELSE "False"

\* INNValidator._validate_inn_12
validate_inn_12(inn) ==
    LET coefficients_1 == << 7, 2, 4, 10, 3, 5, 9, 4, 6, 8 >>
        coefficients_2 == << 3, 7, 2, 4, 10, 3, 5, 9, 4, 6, 8 >>
    IN  IF \E i \in 1..11 : inn[i] \notin DigitSet THEN "ValueError"
        ELSE LET control_digit_1 == (checksum(inn, coefficients_1, 10) % 11) % 10
                 control_digit_2 == (checksum(inn, coefficients_2, 11) % 11) % 10
             IN  IF DigitValue(inn[11]) # control_digit_1 THEN "False"
                 ELSE IF inn[12] \notin DigitSet THEN "ValueError"
                 ELSE IF DigitValue(inn[12]) = control_digit_2 THEN "True"
                 ELSE "False"

\* INNValidator.validate
inn_validate(inn) ==
    IF Len(inn) = 0 \/ ~ isdigit(inn) THEN "False"
    ELSE IF Len(inn) = 10 THEN validate_inn_10(inn)
    ELSE IF Len(inn) = 12 THEN validate_inn_12(inn)
    ELSE "False"

\* the characters of the INN texts of the model: the digits, a letter, and a
\* superscript digit
InnChars == DigitSet \cup { "a" } \cup SuperscriptDigits

Inn10 == << "7", "7", "0", "7", "0", "8", "3", "8", "9", "3" >>

Inn12 == << "5", "0", "0", "1", "0", "0", "7", "3", "2", "2", "5", "9" >>

\* the INN texts of the model: the two numbers with every one character
\* replaced, the 12-digit number with every pair of check digits, and texts
\* of 0, 9, 11 and 13 characters
InnTexts ==
    { [ Inn10 EXCEPT ![i] = c ] : i \in 1..10, c \in InnChars }
        \cup { [ Inn12 EXCEPT ![i] = c ] : i \in 1..12, c \in InnChars }
        \cup { [ Inn12 EXCEPT ![11] = c, ![12] = d ] : c \in DigitSet, d \in DigitSet }
        \cup { << >>, SubSeq(Inn10, 1, 9), Inn10 \o << "3" >>, Inn12 \o << "9" >> }

-----------------------------------------------------------------------------
(* core/validators.py: CertificateIDValidator *)

\* self.pattern.match(s) for ^[A-Z0-9]{5}-[A-Z0-9]{5}-[A-Z0-9]{5}-[A-Z0-9]{5}$
\* : 23 characters of the groups and hyphens, then the end of the string or a
\* newline that ends the string
pattern_match(s) ==
    /\ \/ Len(s) = 23
       \/ Len(s) = 24 /\ s[24] = "\n"
    /\ \A i \in 1..23 :
           IF i \in { 6, 12, 18 } THEN s[i] = "-" ELSE s[i] \in CharSet

\* variant: the length of the text is not tested before the pattern
id_validate_pattern_only(certificate_id) ==
    Len(certificate_id) # 0 /\ pattern_match(certificate_id)

\* CertificateIDValidator.validate
id_validate(certificate_id) ==
    IF Len(certificate_id) = 0 \/ Len(certificate_id) # 23
    THEN FALSE
    ELSE pattern_match(certificate_id)

\* characters put into an id: a letter, a digit, a hyphen, a lower-case
\* letter, an underscore, a blank, a newline
IdChars == { "A", "7", "-", "a", "_", " ", "\n" }

\* the id texts of the model: a well-formed id with every one character
\* replaced, and texts of other lengths and groupings
IdTexts ==
    LET id == IdOfShape("A", << "1", "2", "2", "6" >>)
        A(n) == [ i \in 1..n |-> "A" ]
    IN  { [ id EXCEPT ![i] = c ] : i \in 1..23, c \in IdChars }
            \cup { << >>, SubSeq(id, 1, 22), id \o << "6" >>, id \o << "\n" >>,
                   SubSeq(id, 1, 22) \o << "\n" >>,
                   generate_id_with_suffix(<< "1", "2", "2", "6" >>,
                       A(5), A(5), A(5), << "A", "A" >>),
                   A(4) \o << "-" >> \o A(6) \o << "-" >> \o A(5) \o << "-" >> \o A(5),
                   A(11) \o << "-" >> \o A(5) \o << "-" >> \o A(5),
                   A(3) \o << "-" >> \o A(3) \o << "-" >> \o A(5) \o << "-" >>
                       \o A(5) \o << "-" >> \o A(3),
                   A(23) }

\* no function was called
NoFn == [ op |-> "none" ]

\* dates around the day of TodaySet: 31, 8, 7 and 1 days before, the day, and
\* 1, 7, 8, 30, 31 and 365 days after
StatusDates ==
    { Date(2026, 10, 1), Date(2026, 10, 24), Date(2026, 10, 25), Date(2026, 10, 31),
      Date(2026, 11, 1), Date(2026, 11, 2), Date(2026, 11, 8), Date(2026, 11, 9),
      Date(2026, 12, 1), Date(2026, 12, 2), Date(2027, 11, 1) }

-----------------------------------------------------------------------------
(* bot: Telegram updates *)

\* user id standing for an update without from_user
NoUser == 0

ChatTypes == { "private", "group", "supergroup" }

\* button labels of ButtonTexts and commands a message text can equal
Labels ==
    { "CREATE_CERTIFICATE", "MY_CERTIFICATES", "VERIFY_CERTIFICATE", "SEARCH",
      "HELP", "EDIT_CERTIFICATE", "CONFIRM", "CANCEL", "BACK",
      "SEARCH_BY_DOMAIN", "SEARCH_BY_INN",
      "/start", "/help", "/cancel", "/status" }

\* certificate data typed as one message, as parse_certificate_message reads
\* it (ok = FALSE stands for a text the parser rejects with ValueError): a
\* period that starts on the day of TodaySet, the same period for a domain
\* that is part of a longer one, and a period that ends before it starts
Forms ==
    { [ ok |-> TRUE, domain |-> "example.com", inn |-> "7707083893",
        valid_from |-> Date(2026, 11, 1), valid_to |-> Date(2026, 12, 31),
        users_count |-> 1 ],
      [ ok |-> TRUE, domain |-> "site.com", inn |-> "7707083893",
        valid_from |-> Date(2026, 11, 1), valid_to |-> Date(2026, 12, 31),
        users_count |-> 1 ],
      [ ok |-> TRUE, domain |-> "example.com", inn |-> "7707083893",
        valid_from |-> Date(2026, 12, 31), valid_to |-> Date(2026, 11, 1),
        users_count |-> 1 ] }

FormText(form) == [ label |-> "", chars |-> << >>, form |-> form ]

\* the texts of the messages of the model
Texts ==
    { Button(l) : l \in Labels }
        \cup { FreeText(id) : id \in StoredIds \cup { << "S","H","O","R","T" >> } }
        \cup { FormText(f) : f \in Forms }

\* texts sent in group chats: one for a handler of each router
GroupTexts ==
    { Button("CREATE_CERTIFICATE"), Button("VERIFY_CERTIFICATE"), Button("/start") }
        \cup { FreeText(id) : id \in StoredIds }

\* updates: messages with a text, and callback queries
Updates ==
    { [ kind |-> "message", user |-> u, chat_type |-> "private", text |-> t ] :
          u \in Users, t \in Texts }
        \cup { [ kind |-> "message", user |-> u, chat_type |-> c, text |-> t ] :
                   u \in Users, c \in ChatTypes \ { "private" }, t \in GroupTexts }
        \cup { [ kind |-> "callback_query", user |-> u, chat_type |-> c,
                 text |-> Button("") ] : u \in Users, c \in ChatTypes }

\* FSM key (chat, user): the dialog state of the sender in the chat of the
\* update.  No handler runs in a group chat, so only private chats hold one.
StateOf(f, update) ==
    IF update.chat_type = "private" /\ update.user \in DOMAIN f
    THEN f[update.user] ELSE "None"

-----------------------------------------------------------------------------
(* bot/main.py setup_handlers, bot/handlers/*: the routers in the order of   *)
(* include_router, their handlers in the order of registration               *)

Handlers ==
    << [ router |-> "admin",  name |-> "start_create_certificate" ],
       [ router |-> "admin",  name |-> "process_certificate_data" ],
       [ router |-> "admin",  name |-> "process_confirmation" ],
       [ router |-> "admin",  name |-> "show_user_certificates" ],
       [ router |-> "verify", name |-> "start_verify_certificate" ],
       [ router |-> "verify", name |-> "process_certificate_verification" ],
       [ router |-> "verify", name |-> "start_search" ],
       [ router |-> "verify", name |-> "process_search_type" ],
       [ router |-> "verify", name |-> "process_domain_search" ],
       [ router |-> "verify", name |-> "process_inn_search" ],
       [ router |-> "common", name |-> "start_command" ],
       [ router |-> "common", name |-> "help_command" ],
       [ router |-> "common", name |-> "cancel_command" ],
       [ router |-> "common", name |-> "status_command" ],
       [ router |-> "common", name |-> "unknown_message" ] >>

\* the filter of a handler: F.text == ..., a state, a command, or none
Filter(name, text, state) ==
    CASE name = "start_create_certificate" -> text.label = "CREATE_CERTIFICATE"
      [] name = "process_certificate_data" ->
             state = "CreateCertificateStates:waiting_for_certificate_data"
      [] name = "process_confirmation" ->
             state = "CreateCertificateStates:waiting_for_confirmation"
      [] name = "show_user_certificates" -> text.label = "MY_CERTIFICATES"
      [] name = "start_verify_certificate" -> text.label = "VERIFY_CERTIFICATE"
      [] name = "process_certificate_verification" ->
             state = "VerifyCertificateStates:waiting_for_certificate_id"
      [] name = "start_search" -> text.label = "SEARCH"
      [] name = "process_search_type" ->
             state = "SearchStates:waiting_for_search_type"
      [] name = "process_domain_search" ->
             state = "SearchStates:waiting_for_domain_search"
      [] name = "process_inn_search" ->
             state = "SearchStates:waiting_for_inn_search"
      [] name = "start_command" -> text.label = "/start"
      [] name = "help_command" -> text.label \in { "/help", "HELP" }
      [] name = "cancel_command" -> text.label = "/cancel"
      [] name = "status_command" -> text.label = "/status"
      [] name = "unknown_message" -> TRUE

\* the handler the dispatcher calls: the first whose filter accepts the
\* message; no handler is registered for callback queries (index 0)
Route(f, update) ==
    LET accepting == { i \in 1..Len(Handlers) :
                         Filter(Handlers[i].name, update.text, StateOf(f, update)) }
    IN  IF update.kind # "message" \/ accepting = {}
        THEN 0
        ELSE CHOOSE i \in accepting : \A j \in accepting : i <= j

\* position and router of the handler of that name
IndexOf(name) == CHOOSE i \in 1..Len(Handlers) : Handlers[i].name = name

RouterOf(name) == Handlers[IndexOf(name)].router

-----------------------------------------------------------------------------
(* bot/middleware.py *)

\* AccessMiddleware.__call__: "handler" when it calls the handler, "silent"
\* when it returns None without a reply, "rejected" when it refuses
AccessMiddleware(update) ==
    IF update.user = NoUser THEN "handler"
    ELSE IF update.chat_type \in { "group", "supergroup" } THEN "silent"
    ELSE IF ~ is_allowed_user(update.user) THEN "rejected"
    ELSE "handler"

\* AdminRequiredMiddleware.__call__
AdminRequiredMiddleware(update) ==
    IF update.user = NoUser THEN "silent"
    ELSE IF update.chat_type \in { "group", "supergroup" } THEN "silent"
    ELSE IF ~ is_admin(update.user) THEN "rejected"
    ELSE "handler"

\* VerifyRequiredMiddleware.__call__
VerifyRequiredMiddleware(update) ==
    IF update.user = NoUser THEN "silent"
    ELSE IF update.chat_type \in { "group", "supergroup" } THEN "silent"
    ELSE IF ~ is_verify_user(update.user) THEN "rejected"
    ELSE "handler"

\* the message a refusing middleware sends: to a Message of a private chat,
\* or as the alert of a CallbackQuery
RefusalReplies(update, reply) ==
    IF update.kind = "message" /\ update.chat_type = "private" THEN { reply }
    ELSE IF update.kind = "callback_query" THEN { reply }
    ELSE {}

\* the middlewares around a handler of the router, outermost first: the
\* dispatcher's AccessMiddleware, then the router's own
Gate(router, update) ==
    LET access == AccessMiddleware(update)
        role == IF router \in { "admin", "edit" }
                THEN AdminRequiredMiddleware(update)
                ELSE IF router = "verify" THEN VerifyRequiredMiddleware(update)
                ELSE "handler"
    IN  IF access # "handler"
        THEN [ by |-> "AccessMiddleware", result |-> access,
               replies |-> IF access = "rejected"
                           THEN RefusalReplies(update, "access_denied") ELSE {} ]
        ELSE IF role # "handler"
        THEN [ by |-> IF router \in { "admin", "edit" }
                      THEN "AdminRequiredMiddleware"
                      ELSE "VerifyRequiredMiddleware",
               result |-> role,
               replies |-> IF role = "rejected"
                           THEN RefusalReplies(update, "role_denied") ELSE {} ]
        ELSE [ by |-> "", result |-> "handler", replies |-> {} ]

NoUpdate ==
    [ n |-> 0, kind |-> "", label |-> "", user |-> NoUser, chat_type |-> "", router |-> "",
      handler |-> "", refused_by |-> "", executed |-> FALSE, replies |-> {},
      calls |-> {} ]
-----------------------------------------------------------------------------
(* Initial values of the variable groups *)

InitGenVars ==
    /\ gen_pc = "idle"
    /\ gen_valid_to = NoDate
    /\ gen_existing = {}
    /\ gen_attempt = 0
    /\ gen_id = <<>>
    /\ gen_extract = NoExtract

InitDbVars ==
    /\ certificates = <<>>
    /\ certificate_history = <<>>
    /\ files = {}

InitTxVars == session = NoSession

InitArcVars == backup = NoBackup

InitFnVars == fn = NoFn

\* two concurrent tasks: the deliveries of one update (SpecConfirm), the
\* callers of a creation (SpecIds); none is queued in the other specifications
Runs == { 1, 2 }

NoTask ==
    [ pc |-> "none", called |-> FALSE, outcome |-> "none", added |-> 0,
      existing_ids |-> {}, certificate_id |-> << >> ]

InitTaskVars == tasks = [ k \in Runs |-> NoTask ]

InitSvcVars ==
    /\ last = NoLast
    /\ ncalls = 0

InitApiVars ==
    /\ legacy_db = {}
    /\ legacy_files = {}
    /\ api_last = [ op |-> "none", n |-> 0, request |-> NoApiRequest, status |-> 0 ]

InitBotVars ==
    /\ fsm = [ u \in Users |-> "None" ]
    /\ fsm_data = [ u \in Users |-> NoData ]
    /\ upd = NoUpdate

-----------------------------------------------------------------------------
(* SpecGen: core/generator.py *)

\* generate(valid_to, existing_ids): entry, up to the loop
GenerateCall ==
    /\ gen_pc = "idle"
    /\ \E valid_to \in ValidToSet, existing_ids \in ExistingIdSets :
           /\ gen_valid_to' = valid_to
           /\ gen_existing' = existing_ids
    /\ gen_attempt' = 0
    /\ gen_pc' = "loop"
    /\ UNCHANGED <<today, arcVars, taskVars, txVars, fnVars, gen_id, gen_extract, dbVars, svcVars, apiVars, botVars>>

\* one iteration of "for attempt in range(self.max_attempts)"
GenerateAttempt ==
    /\ gen_pc = "loop"
    /\ gen_attempt < max_attempts
    /\ \E certificate_id \in CandidateIds(format_month_year(gen_valid_to)) :
           IF IsUnique(certificate_id, gen_existing)
           THEN gen_pc' = "returned" /\ gen_id' = certificate_id
                    /\ UNCHANGED gen_attempt
           ELSE gen_pc' = "loop" /\ gen_attempt' = gen_attempt + 1
                    /\ UNCHANGED gen_id
    /\ UNCHANGED <<today, arcVars, taskVars, txVars, fnVars, gen_valid_to, gen_existing, gen_extract,
                   dbVars, svcVars, apiVars, botVars>>

\* the loop ran out: raise GenerationError
GenerateExhausted ==
    /\ gen_pc = "loop"
    /\ gen_attempt >= max_attempts
    /\ gen_pc' = "raised"
    /\ UNCHANGED <<today, arcVars, taskVars, txVars, fnVars, gen_valid_to, gen_existing, gen_attempt, gen_id, gen_extract,
                   dbVars, svcVars, apiVars, botVars>>

\* extract_expiry_date applied to the code generate() returned
ExtractGenerated ==
    /\ gen_pc = "returned"
    /\ gen_extract.id # gen_id
    /\ gen_extract' = [id |-> gen_id] @@ extract_expiry_date(gen_id, today)
    /\ UNCHANGED <<today, arcVars, taskVars, txVars, fnVars, gen_pc, gen_valid_to, gen_existing, gen_attempt, gen_id,
                   dbVars, svcVars, apiVars, botVars>>

\* extract_expiry_date applied to a given id
ExtractExample ==
    /\ gen_pc = "idle"
    /\ \E id \in ExampleIds :
           gen_extract' = [id |-> id] @@ extract_expiry_date(id, today)
    /\ gen_pc' = "parsed"
    /\ UNCHANGED <<today, arcVars, taskVars, txVars, fnVars, gen_valid_to, gen_existing, gen_attempt, gen_id,
                   dbVars, svcVars, apiVars, botVars>>

InitGen ==
    /\ today \in TodaySet
    /\ InitGenVars /\ InitArcVars /\ InitTaskVars /\ InitTxVars /\ InitFnVars /\ InitDbVars /\ InitSvcVars /\ InitApiVars /\ InitBotVars

NextGen ==
    \/ GenerateCall
    \/ GenerateAttempt
    \/ GenerateExhausted
    \/ ExtractGenerated
    \/ ExtractExample

SpecGen == InitGen /\ [][NextGen]_vars

-----------------------------------------------------------------------------
(* Properties of the generator, specification SpecGen *)

LastFour(id) == SubSeq(id, Len(id) - 3, Len(id))

\* C4: every code generate() returns has exactly 23 characters, four groups
\* of five symbols of [A-Z0-9] joined by three hyphens, and is accepted by
\* validate_id_format.
C4_GeneratedIdWellFormed ==
    gen_pc = "returned" =>
        /\ Len(gen_id) = 23
        /\ Count(gen_id, "-") = 3
        /\ validate_id_format(gen_id)

\* C5: the last four characters of a returned code are the zero-padded
\* two-digit month of the expiry date followed by the two digits of its
\* year mod 100.
C5_SuffixEncodesExpiry ==
    gen_pc = "returned" =>
        LET suffix == LastFour(gen_id)
        IN  /\ \A i \in 1..4 : suffix[i] \in DigitSet
            /\ 10 * DigitValue(suffix[1]) + DigitValue(suffix[2]) = gen_valid_to.month
            /\ 10 * DigitValue(suffix[3]) + DigitValue(suffix[4]) = gen_valid_to.year % 100

C5_Witness ==
    /\ gen_pc = "returned"
    /\ gen_valid_to = Date(2024, 5, 31)
    /\ LastFour(gen_id) = << "0", "5", "2", "4" >>

\* an expiry date a creation request may carry: from today up to five years ahead
Requestable(d) ==
    /\ DateLE(today, d)
    /\ DateLE(d, Date(today.year + 5, today.month, today.day))

\* C6: for every expiry date from today up to five years ahead,
\* extract_expiry_date applied to the code generate() returned does not raise
\* and returns the month and the year of that date.
C6_RoundTrip ==
    (gen_pc = "returned" /\ gen_extract.id = gen_id /\ Requestable(gen_valid_to)) =>
        /\ ~ gen_extract.raised
        /\ gen_extract.month = gen_valid_to.month
        /\ gen_extract.year = gen_valid_to.year

\* C7: generate() never returns a code of existing_ids; it gives up with a
\* generation error after exactly max_attempts colliding candidates, and only
\* when candidates can collide.
C7_UniqueOrExhausted ==
    /\ gen_attempt <= max_attempts
    /\ gen_pc = "returned" =>
           /\ gen_id \notin gen_existing
           /\ gen_attempt < max_attempts
    /\ gen_pc = "raised" =>
           /\ gen_attempt = max_attempts
           /\ CandidateIds(format_month_year(gen_valid_to)) \cap gen_existing # {}

C7_Witness ==
    /\ gen_pc = "raised"
    /\ gen_attempt = 1000
    /\ gen_existing # {}

-----------------------------------------------------------------------------
(* Spec: core/service.py over core/database.py, and the lookup step of the   *)
(* edit dialog (bot/handlers/edit.py) as direct calls of its handlers        *)

\* CertificateRepository.create_certificate called with a dict of columns
RepoCreate ==
    /\ ncalls < MaxCalls
    /\ Len(certificates) < MaxRows
    /\ \E certificate_data \in RepoData(today) :
           LET r == repo_create_certificate(certificates, certificate_history,
                                            certificate_data)
           IN  /\ certificates' = r.certificates
               /\ certificate_history' = r.certificate_history
               /\ last' = [ NoLast EXCEPT !.op = "repo_create",
                                          !.caller = "repository",
                                          !.certificate_id = certificate_data.certificate_id,
                                          !.outcome = r.raised ]
    /\ ncalls' = ncalls + 1
    /\ UNCHANGED <<today, arcVars, taskVars, txVars, fnVars, files, genVars, apiVars, botVars>>

\* CertificateService.create_certificate
CreateCertificate ==
    /\ ncalls < MaxCalls
    /\ \E request \in Requests(today), archive_writable \in BOOLEAN :
       \E r \in create_certificate(certificates, certificate_history, files,
                                   request, today) :
           /\ r.file_write = "written" => archive_writable
           /\ r.file_write = "failed" => ~ archive_writable
           /\ certificates' = r.certificates
           /\ certificate_history' = r.certificate_history
           /\ files' = r.files
           /\ last' = [ NoLast EXCEPT !.op = "create",
                                      !.caller = "service",
                                      !.user_id = request.created_by,
                                      !.request = request,
                                      !.outcome = r.outcome,
                                      !.inner = r.inner,
                                      !.certificate = r.certificate,
                                      !.has_existing = r.has_existing,
                                      !.archive_writable = archive_writable,
                                      !.file_write = r.file_write ]
    /\ ncalls' = ncalls + 1
    /\ UNCHANGED <<today, arcVars, taskVars, txVars, fnVars, genVars, apiVars, botVars>>

\* CertificateService.verify_certificate
VerifyCertificate ==
    /\ ncalls < MaxCalls
    /\ \E certificate_id \in VerifyIds, user_id \in AdminUsers \cup VerifyUsers :
           LET r == verify_certificate(certificates, certificate_history,
                                       certificate_id, user_id, today)
           IN  /\ certificate_history' = r.certificate_history
               /\ last' = [ NoLast EXCEPT !.op = "verify",
                                          !.caller = "service",
                                          !.certificate_id = certificate_id,
                                          !.user_id = user_id,
                                          !.outcome = r.outcome,
                                          !.inner = r.inner,
                                          !.certificate = r.certificate ]
    /\ ncalls' = ncalls + 1
    /\ UNCHANGED <<today, arcVars, taskVars, txVars, fnVars, certificates, files, genVars, apiVars, botVars>>

\* CertificateService.deactivate_certificate
DeactivateCertificate ==
    /\ ncalls < MaxCalls
    /\ \E certificate_id \in StoredIds, user_id \in AdminUsers :
           LET r == deactivate_certificate(certificates, certificate_history,
                                           certificate_id, user_id)
           IN  /\ certificates' = r.certificates
               /\ certificate_history' = r.certificate_history
               /\ last' = [ NoLast EXCEPT !.op = "deactivate",
                                          !.caller = "service",
                                          !.certificate_id = certificate_id,
                                          !.user_id = user_id,
                                          !.outcome = IF r.result THEN "True" ELSE "False" ]
    /\ ncalls' = ncalls + 1
    /\ UNCHANGED <<today, arcVars, taskVars, txVars, fnVars, files, genVars, apiVars, botVars>>

\* CertificateService.edit_certificate_dates
EditCertificateDates ==
    /\ ncalls < MaxCalls
    /\ \E edit_request \in EditRequests, archive_writable \in BOOLEAN :
           LET r == edit_certificate_dates(certificates, certificate_history,
                                           files, edit_request)
           IN  /\ certificates' = r.certificates
               /\ certificate_history' = r.certificate_history
               /\ files' = r.files
               /\ last' = [ NoLast EXCEPT !.op = "edit_dates",
                                          !.caller = "service",
                                          !.certificate_id = edit_request.certificate_id,
                                          !.user_id = edit_request.edited_by,
                                          !.new_valid_from = edit_request.new_valid_from,
                                          !.new_valid_to = edit_request.new_valid_to,
                                          !.archive_writable = archive_writable,
                                          !.file_write = r.file_write,
                                          !.outcome = r.outcome,
                                          !.inner = r.inner,
                                          !.certificate = r.certificate ]
    /\ ncalls' = ncalls + 1
    /\ UNCHANGED <<today, arcVars, taskVars, txVars, fnVars, genVars, apiVars, botVars>>

\* CertificateService.search_certificates
SearchCertificates ==
    /\ ncalls < MaxCalls
    /\ \E search_request \in SearchRequests :
           LET r == service_search_certificates(certificates, search_request)
           IN  last' = [ NoLast EXCEPT !.op = "search",
                                       !.caller = "service",
                                       !.search_request = search_request,
                                       !.active_only = search_request.active_only,
                                       !.outcome = r.outcome,
                                       !.inner = r.inner,
                                       !.found = r.found ]
    /\ ncalls' = ncalls + 1
    /\ UNCHANGED <<today, arcVars, taskVars, txVars, fnVars, dbVars, genVars, apiVars, botVars>>

\* CertificateService.get_user_certificates
GetUserCertificates ==
    /\ ncalls < MaxCalls
    /\ \E user_id \in AdminUsers \cup VerifyUsers, active_only \in BOOLEAN :
           LET r == get_user_certificates(certificates, user_id, active_only)
           IN  last' = [ NoLast EXCEPT !.op = "user_certificates",
                                       !.caller = "service",
                                       !.user_id = user_id,
                                       !.active_only = active_only,
                                       !.outcome = r.outcome,
                                       !.inner = r.inner,
                                       !.found = r.found ]
    /\ ncalls' = ncalls + 1
    /\ UNCHANGED <<today, arcVars, taskVars, txVars, fnVars, dbVars, genVars, apiVars, botVars>>

\* CertificateService.get_statistics
GetStatistics ==
    /\ ncalls < MaxCalls
    /\ \E archive_readable \in BOOLEAN :
           LET r == get_statistics(certificates, files, today, archive_readable)
           IN  last' = [ NoLast EXCEPT !.op = "statistics",
                                       !.caller = "service",
                                       !.archive_readable = archive_readable,
                                       !.outcome = r.outcome,
                                       !.inner = r.inner,
                                       !.statistics = r.statistics ]
    /\ ncalls' = ncalls + 1
    /\ UNCHANGED <<today, arcVars, taskVars, txVars, fnVars, dbVars, genVars, apiVars, botVars>>

\* edit.py start_edit_certificate: clear the state, ask for the id
start_edit_certificate(user_id) ==
    /\ fsm' = [ fsm EXCEPT ![user_id] = "EditCertificateStates:waiting_for_certificate_id" ]
    /\ fsm_data' = [ fsm_data EXCEPT ![user_id] = NoData ]
    /\ UNCHANGED <<today, arcVars, taskVars, txVars, fnVars, dbVars, svcVars, upd, genVars, apiVars>>

\* edit.py cancel_edit
cancel_edit(user_id) ==
    /\ fsm' = [ fsm EXCEPT ![user_id] = "None" ]
    /\ fsm_data' = [ fsm_data EXCEPT ![user_id] = NoData ]
    /\ UNCHANGED <<today, arcVars, taskVars, txVars, fnVars, dbVars, svcVars, upd, genVars, apiVars>>

\* edit.py process_certificate_id_for_edit: the lookup step of the edit dialog
process_certificate_id_for_edit(user_id, text) ==
    /\ fsm[user_id] = "EditCertificateStates:waiting_for_certificate_id"
    /\ IF text.label = "CANCEL"
       THEN cancel_edit(user_id)
       ELSE /\ ncalls < MaxCalls
            /\ LET certificate_id == Upper(Strip(text.chars))
                   r == verify_certificate(certificates, certificate_history,
                                           certificate_id, user_id, today)
               IN  /\ certificate_history' = r.certificate_history
                   /\ last' = [ NoLast EXCEPT !.op = "verify",
                                              !.caller = "edit_dialog",
                                              !.certificate_id = certificate_id,
                                              !.user_id = user_id,
                                              !.outcome = r.outcome,
                                              !.inner = r.inner,
                                              !.certificate = r.certificate ]
                   /\ IF r.outcome = "ok"
                      THEN /\ fsm_data' = [ fsm_data EXCEPT ![user_id] =
                                  [ @ EXCEPT !.certificate_id = certificate_id,
                                             !.original_certificate = r.certificate ] ]
                           /\ fsm' = [ fsm EXCEPT ![user_id] =
                                  "EditCertificateStates:waiting_for_new_dates" ]
                      ELSE UNCHANGED <<fsm, fsm_data>>
            /\ ncalls' = ncalls + 1
            /\ UNCHANGED <<today, arcVars, taskVars, txVars, fnVars, certificates, files, upd, genVars, apiVars>>

Init ==
    /\ today \in TodaySet
    /\ InitGenVars /\ InitArcVars /\ InitTaskVars /\ InitTxVars /\ InitFnVars /\ InitDbVars /\ InitSvcVars /\ InitApiVars /\ InitBotVars

Next ==
    \/ RepoCreate
    \/ CreateCertificate
    \/ VerifyCertificate
    \/ DeactivateCertificate
    \/ EditCertificateDates
    \/ SearchCertificates
    \/ GetUserCertificates
    \/ GetStatistics
    \/ \E user_id \in AdminUsers : start_edit_certificate(user_id)
    \/ \E user_id \in AdminUsers, text \in { Button("CANCEL") } \cup
                                            { FreeText(id) : id \in VerifyIds } :
           process_certificate_id_for_edit(user_id, text)

Spec == Init /\ [][Next]_vars

-----------------------------------------------------------------------------
(* SpecRepo: CertificateRepository.create_certificate commit by commit.      *)
(* certificates and certificate_history hold what is committed, which is     *)
(* what every other session and a restarted process read.                    *)

\* database.py:185-188: the constructor, session.add and the first
\* session.commit(): the certificate row is committed
create_certificate_commit_row ==
    /\ session.pc = "idle"
    /\ session.n < MaxCalls
    /\ Len(certificates) < MaxRows
    /\ \E certificate_data \in RepoData(today) :
           LET r == repo_create_certificate(certificates, certificate_history,
                                            certificate_data)
           IN  IF r.raised # "none"
               THEN /\ session' = [ NoSession EXCEPT !.n = session.n + 1,
                                                     !.raised = r.raised ]
                    /\ UNCHANGED certificates
               ELSE /\ session' = [ pc |-> "row_committed", n |-> session.n + 1,
                                    certificate |-> r.certificate,
                                    raised |-> "none" ]
                    /\ certificates' = r.certificates
    /\ UNCHANGED <<today, arcVars, taskVars, fnVars, certificate_history, files, genVars, svcVars, apiVars, botVars>>

\* database.py:203-210: _add_history_record and the second session.commit()
create_certificate_commit_history ==
    /\ session.pc = "row_committed"
    /\ certificate_history' =
           add_history_record(certificate_history,
               session.certificate.certificate_id, "created",
               session.certificate.created_by,
               [ domain |-> session.certificate.domain,
                 inn |-> session.certificate.inn ])
    /\ session' = [ session EXCEPT !.pc = "idle" ]
    /\ UNCHANGED <<today, arcVars, taskVars, fnVars, certificates, files, genVars, svcVars, apiVars, botVars>>

\* the call ends between the two commits: the second commit raises (the
\* connection is lost, the INSERT into certificate_history fails) or the
\* process is killed; the session is closed and its pending row discarded
create_certificate_interrupted ==
    /\ session.pc = "row_committed"
    /\ session' = [ session EXCEPT !.pc = "idle", !.raised = "OperationalError" ]
    /\ UNCHANGED <<today, arcVars, taskVars, fnVars, certificates, certificate_history, files, genVars,
                   svcVars, apiVars, botVars>>

\* CertificateRepository.deactivate_certificate by another session: one commit
repo_deactivate ==
    /\ session.n < MaxCalls
    /\ \E certificate_id \in StoredIds, user_id \in AdminUsers :
           LET r == repo_deactivate_certificate(certificates, certificate_history,
                                                certificate_id, StrOfInt(user_id))
           IN  /\ r.result
               /\ certificates' = r.certificates
               /\ certificate_history' = r.certificate_history
    /\ session' = [ session EXCEPT !.n = session.n + 1 ]
    /\ UNCHANGED <<today, arcVars, taskVars, fnVars, files, genVars, svcVars, apiVars, botVars>>

InitRepo ==
    /\ today \in TodaySet
    /\ InitGenVars /\ InitArcVars /\ InitTaskVars /\ InitTxVars /\ InitFnVars /\ InitDbVars /\ InitSvcVars /\ InitApiVars /\ InitBotVars

NextRepo ==
    \/ create_certificate_commit_row
    \/ create_certificate_commit_history
    \/ create_certificate_interrupted
    \/ repo_deactivate

SpecRepo == InitRepo /\ [][NextRepo]_vars

\* the committed certificate row has a committed `created` history row
HasCreatedRow(hist, certificate_id) ==
    \E j \in 1..Len(hist) :
        hist[j].certificate_id = certificate_id /\ hist[j].action = "created"

\* C15: in every reachable state of the relational store, a failure or crash
\* inside create_certificate included, every committed certificate row has a
\* committed `created` history row.
C15_CreateAtomic ==
    \A i \in 1..Len(certificates) :
        HasCreatedRow(certificate_history, certificates[i].certificate_id)

-----------------------------------------------------------------------------
(* SpecArchive: core/storage.py, the operations of the file archive called   *)
(* directly, next to the operations of the service and the repository.      *)

\* FileStorage.save_certificate with the certificate of a stored row, as
\* service.py:77-81 passes it
SaveCertificate ==
    /\ ncalls < MaxCalls
    /\ \E i \in 1..Len(certificates) :
           LET p == convert_db_to_pydantic(certificates[i])
           IN  /\ ~ p.raised
               /\ files' = save_certificate(files, p.certificate, today.year)
               /\ last' = [ NoLast EXCEPT !.op = "save",
                                          !.caller = "archive",
                                          !.certificate_id = p.certificate.certificate_id,
                                          !.certificate = p.certificate ]
    /\ ncalls' = ncalls + 1
    /\ UNCHANGED <<today, arcVars, taskVars, txVars, fnVars, certificates, certificate_history,
                   genVars, apiVars, botVars>>

\* FileStorage.load_certificate
LoadCertificate ==
    /\ ncalls < MaxCalls
    /\ \E certificate_id \in StoredIds :
       \E document \in load_certificate(files, certificate_id) :
           last' = [ NoLast EXCEPT !.op = "load",
                                   !.caller = "archive",
                                   !.certificate_id = certificate_id,
                                   !.outcome = IF document = NoDocument
                                               THEN "None" ELSE "ok",
                                   !.document = document ]
    /\ ncalls' = ncalls + 1
    /\ UNCHANGED <<today, arcVars, taskVars, txVars, fnVars, dbVars, genVars, apiVars, botVars>>

\* FileStorage.delete_certificate
DeleteCertificate ==
    /\ ncalls < MaxCalls
    /\ \E certificate_id \in StoredIds, domain \in { "" } \cup Domains :
       \E r \in delete_certificate(files, certificate_id, domain) :
           /\ files' = r.files
           /\ last' = [ NoLast EXCEPT !.op = "delete",
                                      !.caller = "archive",
                                      !.certificate_id = certificate_id,
                                      !.outcome = IF r.result THEN "True" ELSE "False" ]
    /\ ncalls' = ncalls + 1
    /\ UNCHANGED <<today, arcVars, taskVars, txVars, fnVars, certificates, certificate_history,
                   genVars, apiVars, botVars>>

\* FileStorage.backup_certificates
BackupCertificates ==
    /\ ncalls < MaxCalls
    /\ backup' = backup_certificates(files)
    /\ last' = [ NoLast EXCEPT !.op = "backup",
                               !.caller = "archive",
                               !.outcome = "ok",
                               !.count = backup'.total_certificates ]
    /\ ncalls' = ncalls + 1
    /\ UNCHANGED <<today, taskVars, txVars, fnVars, dbVars, genVars, apiVars, botVars>>

\* FileStorage.restore_from_backup with the path of the last backup
RestoreFromBackup ==
    /\ ncalls < MaxCalls
    /\ LET r == restore_from_backup(files, backup)
       IN  /\ files' = r.files
           /\ last' = [ NoLast EXCEPT !.op = "restore",
                                      !.caller = "archive",
                                      !.outcome = IF r.raised = "none"
                                                  THEN "ok" ELSE r.raised,
                                      !.inner = r.raised,
                                      !.files_before = Cardinality(files),
                                      !.count = r.restored_count ]
    /\ ncalls' = ncalls + 1
    /\ UNCHANGED <<today, arcVars, taskVars, txVars, fnVars, certificates, certificate_history,
                   genVars, apiVars, botVars>>

\* FileStorage.cleanup_old_files(days_old)
CleanupOldFiles ==
    /\ ncalls < MaxCalls
    /\ \E days_old \in { 0, 365 } :
           LET r == cleanup_old_files(files, days_old)
           IN  /\ files' = r.files
               /\ last' = [ NoLast EXCEPT !.op = "cleanup",
                                          !.caller = "archive",
                                          !.outcome = "ok",
                                          !.count = r.deleted_count ]
    /\ ncalls' = ncalls + 1
    /\ UNCHANGED <<today, arcVars, taskVars, txVars, fnVars, certificates, certificate_history,
                   genVars, apiVars, botVars>>

\* CertificateStorageManager.sync_database_to_files
SyncDatabaseToFiles ==
    /\ ncalls < MaxCalls
    /\ LET r == sync_database_to_files(certificates, files, today.year)
       IN  /\ files' = r.files
           /\ last' = [ NoLast EXCEPT !.op = "sync",
                                      !.caller = "archive",
                                      !.outcome = "ok",
                                      !.count = r.synced_count ]
    /\ ncalls' = ncalls + 1
    /\ UNCHANGED <<today, arcVars, taskVars, txVars, fnVars, certificates, certificate_history,
                   genVars, apiVars, botVars>>

\* the relational store and the archive at the start: both empty, or what
\* two calls of the repository's create_certificate and a deactivation of the
\* second row left, without and with a sync_database_to_files after them
InitialStores ==
    LET d1 == [ certificate_id |-> IdOfShape("A", << "1", "2", "2", "6" >>),
                domain |-> "example.com", inn |-> "7707083893",
                valid_from |-> Date(2026, 11, 1), valid_to |-> Date(2026, 12, 31),
                users_count |-> 1, created_by |-> StrOfInt(101), is_active |-> TRUE ]
        d2 == [ d1 EXCEPT !.certificate_id = IdOfShape("7", << "0", "5", "2", "7" >>),
                          !.domain = "my-site.com",
                          !.valid_to = Date(2027, 5, 31), !.users_count = 5 ]
        r1 == repo_create_certificate(<< >>, << >>, d1)
        r2 == repo_create_certificate(r1.certificates, r1.certificate_history, d2)
        r3 == repo_deactivate_certificate(r2.certificates, r2.certificate_history,
                                          d2.certificate_id, StrOfInt(101))
    IN  { [ certificates |-> << >>, certificate_history |-> << >>, files |-> {} ],
          [ certificates |-> r3.certificates,
            certificate_history |-> r3.certificate_history, files |-> {} ],
          [ certificates |-> r3.certificates,
            certificate_history |-> r3.certificate_history,
            files |-> sync_database_to_files(r3.certificates, {},
                          Date(2026, 11, 1).year).files ] }

InitArchive ==
    /\ today \in TodaySet
    /\ \E store \in InitialStores :
           /\ certificates = store.certificates
           /\ certificate_history = store.certificate_history
           /\ files = store.files
    /\ InitGenVars /\ InitArcVars /\ InitTaskVars /\ InitTxVars /\ InitFnVars /\ InitSvcVars /\ InitApiVars /\ InitBotVars

NextArchive ==
    \/ SaveCertificate
    \/ LoadCertificate
    \/ DeleteCertificate
    \/ BackupCertificates
    \/ RestoreFromBackup
    \/ CleanupOldFiles
    \/ SyncDatabaseToFiles
    \/ RepoCreate
    \/ CreateCertificate
    \/ VerifyCertificate
    \/ DeactivateCertificate
    \/ EditCertificateDates
    \/ SearchCertificates
    \/ GetUserCertificates
    \/ GetStatistics

SpecArchive == InitArchive /\ [][NextArchive]_vars

-----------------------------------------------------------------------------
(* Properties of the file archive, specification SpecArchive *)

\* the document has the domain, inn and users_count of the certificate
SameCertificate(document, certificate) ==
    /\ document # NoDocument
    /\ document.certificate_id = certificate.certificate_id
    /\ document.domain = certificate.domain
    /\ document.inn = certificate.inn
    /\ document.users_count = certificate.users_count

\* C24: after save_certificate(c), load_certificate(c.certificate_id) returns
\* a document with the domain, inn and users_count of c; backup_certificates
\* writes as many documents as the archive holds files, and
\* restore_from_backup of that backup into an empty archive returns that
\* number and leaves every certificate of the backup loadable by its id.
C24_ArchiveRoundTrip ==
    /\ [][ (ncalls' = ncalls + 1 /\ last'.op = "save") =>
              \A document \in load_certificate(files', last'.certificate.certificate_id) :
                  SameCertificate(document, last'.certificate)
         ]_vars
    /\ [][ (ncalls' = ncalls + 1 /\ last'.op = "load" /\ last.op = "save"
              /\ last'.certificate_id = last.certificate_id) =>
              SameCertificate(last'.document, last.certificate)
         ]_vars
    /\ [][ (ncalls' = ncalls + 1 /\ last'.op = "backup") =>
              /\ backup'.written
              /\ backup'.total_certificates = Cardinality(files)
              /\ Cardinality(backup'.certificates) = Cardinality(files)
              /\ \A f \in files : f.data \in backup'.certificates
         ]_vars
    /\ [][ (ncalls' = ncalls + 1 /\ last'.op = "restore"
              /\ backup.written /\ files = {}) =>
              /\ last'.outcome = "ok"
              /\ last'.count = backup.total_certificates
              /\ Cardinality(files') = backup.total_certificates
              /\ \A d \in backup.certificates :
                     load_certificate(files', d.certificate_id) = { d }
         ]_vars

\* a backup of two certificates was restored into the archive after
\* cleanup_old_files had emptied it, and both are loadable
C24_Witness ==
    /\ last.op = "restore"
    /\ last.files_before = 0
    /\ last.count = 2
    /\ backup.total_certificates = 2
    /\ \A id \in StoredIds : NoDocument \notin load_certificate(files, id)

\* C22: the relational store only grows: over every sequence of operations
\* of the service and the repository (create, verify, edit dates, deactivate,
\* search, list, statistics) and of the file archive (save, delete, backup,
\* restore, retention cleanup, sync) every certificate row stays a row of the
\* table, with its key and its certificate_id, and every history row stays as
\* it was written.
C22_StoreOnlyGrows ==
    [][ /\ Len(certificates') >= Len(certificates)
        /\ \A i \in 1..Len(certificates) :
               /\ certificates'[i].id = certificates[i].id
               /\ certificates'[i].certificate_id = certificates[i].certificate_id
        /\ Len(certificate_history') >= Len(certificate_history)
        /\ SubSeq(certificate_history', 1, Len(certificate_history))
               = certificate_history
      ]_vars

\* three calls, the last one a retention cleanup that deleted both files of
\* the archive, another one a deactivation: both rows and their history are
\* still stored
C22_Witness ==
    /\ ncalls = 3
    /\ last.op = "cleanup"
    /\ last.count = 2
    /\ files = {}
    /\ Len(certificates) = 2
    /\ \A i \in 1..2 : ~ certificates[i].is_active
    /\ Len(certificate_history) = 4

\* a certificate was saved and then loaded by its id
SavedThenLoaded ==
    /\ last.op = "load"
    /\ last.outcome = "ok"
    /\ last.document.users_count = 5

-----------------------------------------------------------------------------
(* Properties of the service, specification Spec *)

\* the step is a completed call of the service operation op
Called(op) == ncalls' = ncalls + 1 /\ last'.op = op

\* C1: create_certificate succeeds for a valid request; fetching the
\* certificate by the returned code then yields the domain, inn, valid_from,
\* valid_to, users_count and created_by of the request, and the history of
\* that code is exactly one row, of action "created".
C1_CreateThenFetch ==
    last.op = "create" =>
        /\ last.outcome = "ok"
        /\ LET found == get_certificate_by_id(certificates,
                                              last.certificate.certificate_id)
               history == get_certificate_history(certificate_history,
                                                  last.certificate.certificate_id)
           IN  /\ found # << >>
               /\ found[1].domain = last.request.domain
               /\ found[1].inn = last.request.inn
               /\ found[1].valid_from = last.request.valid_from
               /\ found[1].valid_to = last.request.valid_to
               /\ found[1].users_count = last.request.users_count
               /\ created_by_int(found[1].created_by) = last.request.created_by
               /\ Len(history) = 1
               /\ history[1].action = "created"

\* an active certificate of the domain is stored
ActiveForDomain(certs, domain) ==
    \E i \in 1..Len(certs) : certs[i].domain = domain /\ certs[i].is_active

\* C2: create_certificate is never blocked by existing certificates: every
\* call for a valid request stores one new certificate, and the has_existing
\* it returns is TRUE exactly when an active certificate of the request's
\* domain was stored before the call.
C2_NeverBlocked ==
    [][ Called("create") =>
            /\ last'.outcome = "ok"
            /\ Len(certificates') = Len(certificates) + 1
            /\ last'.has_existing = ActiveForDomain(certificates, last'.request.domain)
      ]_vars

\* the documented shape XXXXX-XXXXX-XXXXX-XXXXX, position by position
WellFormedId(id) ==
    /\ Len(id) = 23
    /\ \A i \in 1..23 :
           IF i \in {6, 12, 18} THEN id[i] = "-" ELSE id[i] \in CharSet

IsStored(certs, id) == \E i \in 1..Len(certs) : certs[i].certificate_id = id

\* C10: verify_certificate fails with a validation error and writes nothing
\* for a malformed id; returns no value and writes nothing for a well-formed
\* id that is not stored; for a well-formed stored id it returns the
\* certificate and appends exactly one "verified" history row of that id, on
\* every call, the calls made by the lookup step of the edit dialog included.
C10_VerifyContract ==
    [][ Called("verify") =>
            LET id == last'.certificate_id
            IN  /\ certificates' = certificates
                /\ files' = files
                /\ ~ WellFormedId(id) =>
                       /\ last'.outcome = "ValidationError"
                       /\ certificate_history' = certificate_history
                /\ (WellFormedId(id) /\ ~ IsStored(certificates, id)) =>
                       /\ last'.outcome = "None"
                       /\ certificate_history' = certificate_history
                /\ (WellFormedId(id) /\ IsStored(certificates, id)) =>
                       /\ last'.outcome = "ok"
                       /\ last'.certificate.certificate_id = id
                       /\ Len(certificate_history') = Len(certificate_history) + 1
                       /\ SubSeq(certificate_history', 1, Len(certificate_history))
                              = certificate_history
                       /\ certificate_history'[Len(certificate_history')].action
                              = "verified"
                       /\ certificate_history'[Len(certificate_history')].certificate_id
                              = id
      ]_vars

\* the row of that id, or << >>
RowOf(certs, id) == get_certificate_by_id(certs, id)

\* C11: edit_certificate_dates fails with the not-found error and changes no
\* row for an id that is not stored; for a stored id it sets the row's
\* valid_from and valid_to to the requested dates, leaves every other field
\* of the row and every other row as they were, appends one history row of
\* that id, and returns the updated certificate.
C11_EditDates ==
    [][ Called("edit_dates") =>
            LET id == last'.certificate_id
                old == RowOf(certificates, id)
                new == RowOf(certificates', id)
            IN  /\ ~ IsStored(certificates, id) =>
                       /\ last'.outcome = "CertificateNotFoundError"
                       /\ certificates' = certificates
                       /\ certificate_history' = certificate_history
                /\ IsStored(certificates, id) =>
                       /\ last'.outcome = "ok"
                       /\ new # << >>
                       /\ new[1] = [ old[1] EXCEPT
                                       !.valid_from = last'.new_valid_from,
                                       !.valid_to = last'.new_valid_to ]
                       /\ Len(certificates') = Len(certificates)
                       /\ \A i \in 1..Len(certificates) :
                              certificates[i].certificate_id # id
                                  => certificates'[i] = certificates[i]
                       /\ Len(certificate_history') = Len(certificate_history) + 1
                       /\ certificate_history'[Len(certificate_history')].certificate_id
                              = id
                       /\ last'.certificate.certificate_id = id
                       /\ last'.certificate.valid_from = last'.new_valid_from
                       /\ last'.certificate.valid_to = last'.new_valid_to
      ]_vars

\* C16: when the file archive cannot be written during create_certificate or
\* edit_certificate_dates, the operation still returns the certificate, no
\* error reaches the caller, and the change committed to the relational store
\* is kept.
C16_FileFailureTolerated ==
    [][ ( /\ Called("create") \/ Called("edit_dates")
          /\ ~ last'.archive_writable
          /\ last'.op = "edit_dates" => IsStored(certificates, last'.certificate_id) )
        => ( /\ last'.outcome = "ok"
             /\ last'.file_write = "failed"
             /\ last'.certificate # NoCertificate
             /\ IsStored(certificates', last'.certificate.certificate_id)
             /\ files' = files
             /\ last'.op = "create" => Len(certificates') = Len(certificates) + 1
             /\ last'.op = "edit_dates" =>
                    /\ RowOf(certificates', last'.certificate_id)[1].valid_from
                           = last'.new_valid_from
                    /\ RowOf(certificates', last'.certificate_id)[1].valid_to
                           = last'.new_valid_to )
      ]_vars

\* the certificate ids of a list of rows or of certificates
IdsOf(list) == { list[i].certificate_id : i \in 1..Len(list) }

\* what the queries of the repository return for a row that is not active
InactiveRowQueries(certs, c) ==
    /\ c.certificate_id \notin IdsOf(get_certificates_by_domain(certs, c.domain, TRUE))
    /\ c.certificate_id \notin IdsOf(get_certificates_by_inn(certs, c.inn, TRUE))
    /\ c.certificate_id \notin IdsOf(get_certificates_by_user(certs, c.created_by, TRUE))
    /\ c.certificate_id \notin IdsOf(search_certificates(certs, c.domain, "", TRUE))
    /\ c.certificate_id \notin IdsOf(search_certificates(certs, "", c.inn, TRUE))
    /\ c.certificate_id \notin IdsOf(search_certificates(certs, c.domain, c.inn, TRUE))
    /\ get_certificate_by_id(certs, c.certificate_id) = << c >>
    /\ c.certificate_id \in IdsOf(get_certificates_by_domain(certs, c.domain, FALSE))
    /\ c.certificate_id \in IdsOf(get_certificates_by_inn(certs, c.inn, FALSE))
    /\ c.certificate_id \in IdsOf(get_certificates_by_user(certs, c.created_by, FALSE))
    /\ c.certificate_id \in IdsOf(search_certificates(certs, c.domain, c.inn, FALSE))

\* C21: deactivate_certificate on a stored id sets is_active to FALSE,
\* appends exactly one "deactivated" history row, returns TRUE and changes no
\* other field or row; on an id that is not stored it returns FALSE and
\* changes nothing; a deactivated certificate stays deactivated, is absent
\* from every active-only query (by domain, by INN, by user, search) and is
\* still returned by the fetch by id and by the queries with
\* active_only = FALSE, those of the service's search and list included.
C21_Deactivate ==
    /\ [][ Called("deactivate") =>
              LET id == last'.certificate_id
              IN  /\ files' = files
                  /\ IsStored(certificates, id) =>
                         /\ last'.outcome = "True"
                         /\ Len(certificates') = Len(certificates)
                         /\ \A i \in 1..Len(certificates) :
                                certificates'[i] =
                                    IF certificates[i].certificate_id = id
                                    THEN [ certificates[i] EXCEPT !.is_active = FALSE ]
                                    ELSE certificates[i]
                         /\ Len(certificate_history') = Len(certificate_history) + 1
                         /\ SubSeq(certificate_history', 1, Len(certificate_history))
                                = certificate_history
                         /\ certificate_history'[Len(certificate_history')].action
                                = "deactivated"
                         /\ certificate_history'[Len(certificate_history')].certificate_id
                                = id
                  /\ ~ IsStored(certificates, id) =>
                         /\ last'.outcome = "False"
                         /\ certificates' = certificates
                         /\ certificate_history' = certificate_history
         ]_vars
    /\ [][ \A i \in 1..Len(certificates) :
              ~ certificates[i].is_active =>
                  /\ i <= Len(certificates')
                  /\ certificates'[i] = certificates[i]
         ]_vars
    /\ [][ Called("search") \/ Called("user_certificates") =>
              \A i \in 1..Len(certificates) :
                  LET c == certificates[i]
                      asked == IF last'.op = "search"
                               THEN /\ last'.search_request.domain
                                           \in { "", c.domain }
                                    /\ last'.search_request.inn \in { "", c.inn }
                               ELSE c.created_by = StrOfInt(last'.user_id)
                  IN  ~ c.is_active =>
                          /\ last'.outcome = "ok"
                          /\ last'.active_only =>
                                 c.certificate_id \notin IdsOf(last'.found)
                          /\ (asked /\ ~ last'.active_only) =>
                                 c.certificate_id \in IdsOf(last'.found)
         ]_vars
    /\ [] ( \A i \in 1..Len(certificates) :
               ~ certificates[i].is_active =>
                   InactiveRowQueries(certificates, certificates[i]) )

\* a stored certificate was deactivated and an active-only search of its
\* domain by the service left it out
C21_Witness ==
    /\ last.op = "search"
    /\ last.search_request = [ domain |-> "example.com", inn |-> "",
                               active_only |-> TRUE ]
    /\ \E i \in 1..Len(certificates) :
           /\ certificates[i].domain = "example.com"
           /\ ~ certificates[i].is_active
           /\ certificates[i].certificate_id \notin IdsOf(last.found)
    /\ \E j \in 1..Len(certificate_history) :
           certificate_history[j].action = "deactivated"

\* deactivate_certificate was called with an id that is not stored
DeactivateUnknownId ==
    /\ last.op = "deactivate"
    /\ last.outcome = "False"

\* core/exceptions.py: CertificateError and its subclasses
Taxonomy ==
    { "CertificateError", "ValidationError", "DomainValidationError",
      "INNValidationError", "PeriodValidationError", "UsersCountValidationError",
      "CertificateNotFoundError", "CertificateExistsError", "DatabaseError",
      "StorageError", "GenerationError" }

\* what a service operation reports when it returns
Returned == { "ok", "None", "True", "False" }

\* C23: every error that escapes a service operation (create, edit dates,
\* verify, search, list-by-user, deactivate, statistics) is a member of the
\* error taxonomy: an error raised inside the operation that is a taxonomy
\* member reaches the caller with its kind unchanged, and any other failure
\* reaches the caller as a database error.
C23_ErrorTaxonomy ==
    [][ (ncalls' = ncalls + 1 /\ last'.caller \in { "service", "edit_dialog" }) =>
            /\ last'.outcome \in Returned \cup Taxonomy
            /\ last'.inner = "none" => last'.outcome \in Returned
            /\ last'.inner \in Taxonomy => last'.outcome = last'.inner
            /\ last'.inner \notin Taxonomy \cup { "none" } =>
                   last'.outcome = "DatabaseError"
      ]_vars

\* get_statistics was called while the archive directory could not be listed
StatisticsArchiveUnreadable ==
    /\ last.op = "statistics"
    /\ ~ last.archive_readable

\* edit_certificate_dates was called for a stored id
C11_StoredIdEdited ==
    /\ last.op = "edit_dates"
    /\ IsStored(certificates, last.certificate_id)

\* a stored id verified twice, the second time by the lookup step of the edit
\* dialog: two "verified" rows; and the dialog moved on to the dates step
C10_Witness ==
    /\ last.op = "verify"
    /\ last.caller = "edit_dialog"
    /\ last.outcome = "ok"
    /\ IsStored(certificates, last.certificate_id)
    /\ Len(SelectSeq(certificate_history,
               LAMBDA h : h.action = "verified"
                          /\ h.certificate_id = last.certificate_id)) = 2
    /\ \E u \in AdminUsers : fsm[u] = "EditCertificateStates:waiting_for_new_dates"

-----------------------------------------------------------------------------
(* SpecApi: core/api.py, the legacy REST create endpoint.  The classes it    *)
(* imports (CertificateGenerator, DatabaseStorage, the year/month file       *)
(* archive) are not in the source tree; their operators follow the           *)
(* specification's description of the legacy generation (spec.md 4.14).      *)

\* bodies of POST /certificates: period.ok = FALSE stands for a period string
\* that is not DD.MM.YYYY-DD.MM.YYYY
ApiRequests ==
    { r \in [ domain : Domains, inn : Inns,
              period : { [ ok |-> ok, valid_from |-> Date(2026, 11, 1),
                           valid_to |-> Date(2026, 12, 31) ] : ok \in BOOLEAN },
              users_count : { 0, 1 }, created_by : AdminUsers ] :
          r.period.ok \/ r.users_count = 1 }

\* legacy validation: a well-formed period and at least one user
legacy_valid(request) == request.period.ok /\ request.users_count >= 1

\* legacy ID scheme: three random blocks, one random character, MMYY
legacy_generate_certificate(request) ==
    IF ~ legacy_valid(request)
    THEN { [ raised |-> "ValidationError", certificate |-> NoRow ] }
    ELSE { [ raised |-> "none",
             certificate |->
                 [ id |-> 0,
                   certificate_id |->
                       b \o <<"-">> \o b \o <<"-">> \o b \o <<"-">> \o p
                           \o format_month_year(request.period.valid_to),
                   domain |-> request.domain, inn |-> request.inn,
                   valid_from |-> request.period.valid_from,
                   valid_to |-> request.period.valid_to,
                   users_count |-> request.users_count,
                   created_at |-> 0,
                   created_by |-> StrOfInt(request.created_by),
                   is_active |-> TRUE ] ] :
               b \in generate_block, p \in random_choices(1) }

\* DatabaseStorage.find_certificates_by_domain
legacy_find_certificates_by_domain(db, domain) == { c \in db : c.domain = domain }

\* DatabaseStorage.save_certificate: StorageError when the write fails or the
\* certificate_id is already stored
legacy_db_save_certificate(db, certificate, db_ok) ==
    IF ~ db_ok \/ \E c \in db : c.certificate_id = certificate.certificate_id
    THEN [ raised |-> "StorageError", db |-> db ]
    ELSE [ raised |-> "none", db |-> db \cup { certificate } ]

\* legacy FileStorage.save_certificate: <year>/<month>/<certificate_id>
legacy_file_save_certificate(fs, certificate, file_ok) ==
    IF ~ file_ok
    THEN [ raised |-> "StorageError", files |-> fs ]
    ELSE [ raised |-> "none",
           files |-> fs \cup { << certificate.valid_from.year,
                                  certificate.valid_from.month,
                                  certificate.certificate_id >> } ]

\* the except clauses of the endpoint: ValidationError -> 400,
\* StorageError -> 500, any other Exception -> 500.  HTTPException is an
\* Exception, so the 409 raised inside the try block is caught by the last
\* clause.
status_of_exception(e) ==
    IF e = "ValidationError" THEN 400
    ELSE IF e = "StorageError" THEN 500
    ELSE 500

\* the try block of the endpoint: the exception it raises ("none": it
\* returns the response) and the stores it leaves
create_certificate_try(db, fs, request, g, db_ok, file_ok) ==
    IF g.raised # "none"
    THEN [ raised |-> g.raised, db |-> db, files |-> fs ]
    ELSE LET existing == legacy_find_certificates_by_domain(db, request.domain)
             active_certs == { c \in existing : c.is_active }
         IN  IF existing # {} /\ active_certs # {}
             THEN [ raised |-> "HTTPException(409)", db |-> db, files |-> fs ]
             ELSE LET s == legacy_db_save_certificate(db, g.certificate, db_ok)
                      f == legacy_file_save_certificate(fs, g.certificate, file_ok)
                  IN  IF s.raised # "none"
                      THEN [ raised |-> s.raised, db |-> db, files |-> fs ]
                      ELSE [ raised |-> f.raised, db |-> s.db, files |-> f.files ]

\* POST /certificates
ApiCreateCertificate ==
    /\ api_last.n < MaxCalls
    /\ \E request \in ApiRequests, db_ok \in BOOLEAN, file_ok \in BOOLEAN :
       \E g \in legacy_generate_certificate(request) :
           LET r == create_certificate_try(legacy_db, legacy_files, request, g,
                                           db_ok, file_ok)
           IN  /\ legacy_db' = r.db
               /\ legacy_files' = r.files
               /\ api_last' = [ op |-> "create", n |-> api_last.n + 1,
                                request |-> request,
                                status |-> IF r.raised = "none" THEN 200
                                           ELSE status_of_exception(r.raised) ]
    /\ UNCHANGED <<today, arcVars, taskVars, txVars, fnVars, genVars, dbVars, svcVars, botVars>>

\* a request refused by the bearer-token dependency before the endpoint runs
ApiUnauthorized ==
    /\ api_last.n < MaxCalls
    /\ \E request \in ApiRequests :
           api_last' = [ op |-> "create", n |-> api_last.n + 1,
                         request |-> request, status |-> 401 ]
    /\ UNCHANGED <<today, arcVars, taskVars, txVars, fnVars, legacy_db, legacy_files, genVars, dbVars, svcVars, botVars>>

InitApi ==
    /\ today \in TodaySet
    /\ InitGenVars /\ InitArcVars /\ InitTaskVars /\ InitTxVars /\ InitFnVars /\ InitDbVars /\ InitSvcVars /\ InitApiVars /\ InitBotVars

NextApi ==
    \/ ApiCreateCertificate
    \/ ApiUnauthorized

SpecApi == InitApi /\ [][NextApi]_vars

\* C3: POST /certificates with valid input for a domain that already has an
\* active certificate answers with HTTP 409 and stores nothing in the
\* database or the file archive.
C3_ConflictRejected ==
    [][ ( /\ api_last'.n = api_last.n + 1
          /\ api_last'.status # 401
          /\ legacy_valid(api_last'.request)
          /\ \E c \in legacy_db : c.domain = api_last'.request.domain /\ c.is_active )
        => ( /\ api_last'.status = 409
             /\ legacy_db' = legacy_db
             /\ legacy_files' = legacy_files )
      ]_vars

-----------------------------------------------------------------------------
(* SpecBot: dispatch of one update per step *)

\* the update is delivered to the handler of that name, and every middleware
\* around it calls on
Delivered(update, name) ==
    /\ upd.n < MaxUpdates
    /\ update.kind = "message"
    /\ Filter(name, update.text, StateOf(fsm, update))
    /\ Gate(RouterOf(name), update).result = "handler"
    /\ Route(fsm, update) = IndexOf(name)

\* what a handler leaves: the state and data of the sender's dialog, the
\* stores, the replies it sent and the service methods it called
Effect(state, data, certs, hist, fs, replies, calls) ==
    [ state |-> state, data |-> data, certificates |-> certs,
      certificate_history |-> hist, files |-> fs, replies |-> replies,
      calls |-> calls ]

\* an effect on the dialog only
DialogEffect(state, data, replies, calls) ==
    Effect(state, data, certificates, certificate_history, files, replies, calls)

Apply(update, name, e) ==
    /\ fsm' = [ fsm EXCEPT ![update.user] = e.state ]
    /\ fsm_data' = [ fsm_data EXCEPT ![update.user] = e.data ]
    /\ certificates' = e.certificates
    /\ certificate_history' = e.certificate_history
    /\ files' = e.files
    /\ upd' = [ n |-> upd.n + 1, kind |-> update.kind,
                label |-> update.text.label, user |-> update.user,
                chat_type |-> update.chat_type, router |-> RouterOf(name),
                handler |-> name, refused_by |-> "", executed |-> TRUE,
                replies |-> e.replies, calls |-> e.calls ]
    /\ UNCHANGED <<today, arcVars, taskVars, txVars, fnVars, genVars, svcVars, apiVars>>

\* state.clear()
Cleared(replies, calls) == DialogEffect("None", NoData, replies, calls)

\* admin.py
start_create_certificate(update) ==
    /\ Delivered(update, "start_create_certificate")
    /\ Apply(update, "start_create_certificate", DialogEffect(
           "CreateCertificateStates:waiting_for_certificate_data", NoData,
           { "instruction" }, {}))

\* admin.py cancel_creation
cancel_creation == Cleared({ "cancelled" }, {})

process_certificate_data(update) ==
    /\ Delivered(update, "process_certificate_data")
    /\ LET u == update.user
           form == update.text.form
           existing_certificates ==
               search_certificates(certificates, form.domain, "", TRUE)
       IN  Apply(update, "process_certificate_data",
               IF update.text.label = "CANCEL" THEN cancel_creation
               ELSE IF ~ form.ok
               THEN DialogEffect(fsm[u], fsm_data[u], { "format_error" }, {})
               ELSE IF validate_certificate_data(form, today) # {}
               THEN DialogEffect(fsm[u], fsm_data[u], { "validation_errors" },
                                 { "validate_certificate_data" })
               ELSE DialogEffect(
                        "CreateCertificateStates:waiting_for_confirmation",
                        [ fsm_data[u] EXCEPT
                              !.form = form,
                              !.has_existing = Len(existing_certificates) > 0 ],
                        { "confirm_request" }
                            \cup (IF Len(existing_certificates) > 0
                                  THEN { "existing_warning" } ELSE {}),
                        { "validate_certificate_data", "search_certificates" }))

process_confirmation(update) ==
    /\ Delivered(update, "process_confirmation")
    /\ LET u == update.user
           data == fsm_data[u].form
           certificate_request ==
               [ domain |-> data.domain, inn |-> data.inn,
                 valid_from |-> data.valid_from, valid_to |-> data.valid_to,
                 users_count |-> data.users_count, created_by |-> u,
                 created_by_username |-> "None", created_by_full_name |-> "None" ]
       IN  IF update.text.label = "CANCEL"
           THEN Apply(update, "process_confirmation", cancel_creation)
           ELSE IF update.text.label # "CONFIRM"
           THEN Apply(update, "process_confirmation", DialogEffect(fsm[u], fsm_data[u], { "choose_action" }, {}))
           ELSE \E r \in create_certificate(certificates, certificate_history,
                                            files, certificate_request, today) :
                    Apply(update, "process_confirmation",
                        Effect("None", NoData, r.certificates,
                               r.certificate_history, r.files,
                               IF r.outcome = "ok"
                               THEN { "created", "notification" }
                               ELSE { "create_error" },
                               { "create_certificate" }))

show_user_certificates(update) ==
    /\ Delivered(update, "show_user_certificates")
    /\ Apply(update, "show_user_certificates", DialogEffect(fsm[update.user], fsm_data[update.user],
                                  { "certificates_list" }, { "get_user_certificates" }))

\* verify.py
start_verify_certificate(update) ==
    /\ Delivered(update, "start_verify_certificate")
    /\ Apply(update, "start_verify_certificate", DialogEffect(
           "VerifyCertificateStates:waiting_for_certificate_id", NoData,
           { "instruction" }, {}))

\* verify.py cancel_verification
cancel_verification == Cleared({ "cancelled" }, {})

process_certificate_verification(update) ==
    /\ Delivered(update, "process_certificate_verification")
    /\ LET u == update.user
           certificate_id == Upper(Strip(update.text.chars))
           r == verify_certificate(certificates, certificate_history,
                                   certificate_id, u, today)
       IN  Apply(update, "process_certificate_verification",
               IF update.text.label = "CANCEL" THEN cancel_verification
               ELSE IF r.outcome = "ok"
               THEN Effect("None", NoData, certificates, r.certificate_history,
                           files, { "verification_result" }, { "verify_certificate" })
               ELSE Effect(fsm[u], fsm_data[u], certificates, r.certificate_history,
                           files,
                           { IF r.outcome = "None" THEN "not_found"
                             ELSE IF r.outcome = "ValidationError" THEN "validation_error"
                             ELSE "error" },
                           { "verify_certificate" }))

start_search(update) ==
    /\ Delivered(update, "start_search")
    /\ Apply(update, "start_search", DialogEffect("SearchStates:waiting_for_search_type", NoData,
                                  { "choose_search_type" }, {}))

\* verify.py cancel_search
cancel_search == Cleared({ "cancelled" }, {})

process_search_type(update) ==
    /\ Delivered(update, "process_search_type")
    /\ LET u == update.user
       IN  Apply(update, "process_search_type",
               IF update.text.label = "BACK" THEN cancel_search
               ELSE IF update.text.label = "SEARCH_BY_DOMAIN"
               THEN DialogEffect("SearchStates:waiting_for_domain_search",
                                 fsm_data[u], { "ask_domain" }, {})
               ELSE IF update.text.label = "SEARCH_BY_INN"
               THEN DialogEffect("SearchStates:waiting_for_inn_search",
                                 fsm_data[u], { "ask_inn" }, {})
               ELSE DialogEffect(fsm[u], fsm_data[u], { "choose_search_type" }, {}))

process_domain_search(update) ==
    /\ Delivered(update, "process_domain_search")
    /\ LET u == update.user
       IN  Apply(update, "process_domain_search",
               IF update.text.label = "BACK"
               THEN DialogEffect("SearchStates:waiting_for_search_type",
                                 fsm_data[u], { "choose_search_type" }, {})
               ELSE Cleared({ "search_result" }, { "search_certificates" }))

\* an INN query is 10 or 12 digits; the texts of the model are none
process_inn_search(update) ==
    /\ Delivered(update, "process_inn_search")
    /\ LET u == update.user
           inn_query == Strip(update.text.chars)
       IN  Apply(update, "process_inn_search",
               IF update.text.label = "BACK"
               THEN DialogEffect("SearchStates:waiting_for_search_type",
                                 fsm_data[u], { "choose_search_type" }, {})
               ELSE IF ~ ( /\ Len(inn_query) \in { 10, 12 }
                           /\ \A i \in 1..Len(inn_query) : inn_query[i] \in DigitSet )
               THEN DialogEffect(fsm[u], fsm_data[u], { "inn_format_error" }, {})
               ELSE Cleared({ "search_result" }, { "search_certificates" }))

\* common.py
start_command(update) ==
    /\ Delivered(update, "start_command")
    /\ Apply(update, "start_command", Cleared({ "welcome" }, {}))

help_command(update) ==
    /\ Delivered(update, "help_command")
    /\ Apply(update, "help_command", DialogEffect(fsm[update.user], fsm_data[update.user],
                                  { "help" }, {}))

cancel_command(update) ==
    /\ Delivered(update, "cancel_command")
    /\ Apply(update, "cancel_command", Cleared({ "cancelled" }, {}))

status_command(update) ==
    /\ Delivered(update, "status_command")
    /\ Apply(update, "status_command",
           IF ~ is_admin(update.user)
           THEN DialogEffect(fsm[update.user], fsm_data[update.user],
                             { "admins_only" }, {})
           ELSE DialogEffect(fsm[update.user], fsm_data[update.user],
                             { "statistics" }, { "get_statistics" }))

unknown_message(update) ==
    /\ Delivered(update, "unknown_message")
    /\ Apply(update, "unknown_message", DialogEffect(fsm[update.user], fsm_data[update.user],
                                  { "unknown_command" }, {}))

\* a middleware around the matched handler returns None: the handler is not
\* called, and the dispatcher takes the update as handled
Refused(update) ==
    /\ upd.n < MaxUpdates
    /\ Route(fsm, update) # 0
    /\ LET h == Handlers[Route(fsm, update)]
           g == Gate(h.router, update)
       IN  /\ g.result # "handler"
           /\ upd' = [ n |-> upd.n + 1, kind |-> update.kind,
                label |-> update.text.label, user |-> update.user,
                       chat_type |-> update.chat_type, router |-> h.router,
                       handler |-> h.name, refused_by |-> g.by,
                       executed |-> FALSE, replies |-> g.replies, calls |-> {} ]
    /\ UNCHANGED <<today, arcVars, taskVars, txVars, fnVars, fsm, fsm_data, dbVars, genVars, svcVars, apiVars>>

\* no handler accepts the update (callback queries): no middleware runs
Unhandled(update) ==
    /\ upd.n < MaxUpdates
    /\ Route(fsm, update) = 0
    /\ upd' = [ n |-> upd.n + 1, kind |-> update.kind,
                label |-> update.text.label, user |-> update.user,
                chat_type |-> update.chat_type, router |-> "", handler |-> "",
                refused_by |-> "", executed |-> FALSE, replies |-> {},
                calls |-> {} ]
    /\ UNCHANGED <<today, arcVars, taskVars, txVars, fnVars, fsm, fsm_data, dbVars, genVars, svcVars, apiVars>>

\* the store the bot starts on: empty, or holding a certificate written
\* through the repository
InitBot ==
    /\ today \in TodaySet
    /\ InitGenVars /\ InitArcVars /\ InitTaskVars /\ InitTxVars /\ InitFnVars /\ InitSvcVars /\ InitApiVars /\ InitBotVars
    /\ files = {}
    /\ \E r \in { [ certificates |-> << >>, certificate_history |-> << >> ] }
                \cup { repo_create_certificate(<< >>, << >>, d) :
                           d \in { x \in RepoData(today) :
                                      /\ x.certificate_id[1] = "A" } } :
           /\ certificates = r.certificates
           /\ certificate_history = r.certificate_history

NextBot ==
    \/ \E update \in Updates : start_create_certificate(update)
    \/ \E update \in Updates : process_certificate_data(update)
    \/ \E update \in Updates : process_confirmation(update)
    \/ \E update \in Updates : show_user_certificates(update)
    \/ \E update \in Updates : start_verify_certificate(update)
    \/ \E update \in Updates : process_certificate_verification(update)
    \/ \E update \in Updates : start_search(update)
    \/ \E update \in Updates : process_search_type(update)
    \/ \E update \in Updates : process_domain_search(update)
    \/ \E update \in Updates : process_inn_search(update)
    \/ \E update \in Updates : start_command(update)
    \/ \E update \in Updates : help_command(update)
    \/ \E update \in Updates : cancel_command(update)
    \/ \E update \in Updates : status_command(update)
    \/ \E update \in Updates : unknown_message(update)
    \/ \E update \in Updates : Refused(update)
    \/ \E update \in Updates : Unhandled(update)

SpecBot == InitBot /\ [][NextBot]_vars

-----------------------------------------------------------------------------
(* SpecConfirm: bot/handlers/admin.py process_confirmation, run as two tasks  *)
(* for one confirmation delivered twice. The dispatcher starts a task for     *)
(* each update; a task gives way to others at its awaits.                     *)

\* CreateCertificateStates.waiting_for_confirmation
awaiting_confirmation == "CreateCertificateStates:waiting_for_confirmation"

\* the message of the confirm button, sent by the admin of the dialog
ConfirmUpdate(u) ==
    [ kind |-> "message", user |-> u, chat_type |-> "private",
      text |-> Button("CONFIRM") ]

\* the dispatcher evaluates the filters on the stored dialog state: the task
\* enters process_confirmation, or the update goes elsewhere
DispatchConfirmation(k) ==
    /\ tasks[k].pc = "queued"
    /\ \E u \in AdminUsers :
           LET update == ConfirmUpdate(u)
           IN  tasks' = [ tasks EXCEPT ![k].pc =
                   IF /\ Gate("admin", update).result = "handler"
                      /\ Route(fsm, update) = IndexOf("process_confirmation")
                   THEN "entered" ELSE "skipped" ]
    /\ UNCHANGED <<today, arcVars, txVars, fnVars, genVars, dbVars, svcVars, apiVars, botVars>>

\* data = await state.get_data(), the request built of it and the call of
\* create_certificate, up to the await of the reply; data of a cleared dialog
\* has no key 'domain' (KeyError, caught by `except Exception`)
RunConfirmation(k) ==
    /\ tasks[k].pc = "entered"
    /\ \E u \in AdminUsers :
           LET data == fsm_data[u].form
               certificate_request ==
                   [ domain |-> data.domain, inn |-> data.inn,
                     valid_from |-> data.valid_from, valid_to |-> data.valid_to,
                     users_count |-> data.users_count, created_by |-> u,
                     created_by_username |-> "None", created_by_full_name |-> "None" ]
           IN  IF fsm_data[u] = NoData
               THEN /\ tasks' = [ tasks EXCEPT ![k] =
                           [ @ EXCEPT !.pc = "failed", !.outcome = "KeyError" ] ]
                    /\ UNCHANGED dbVars
               ELSE \E r \in create_certificate(certificates, certificate_history,
                                                files, certificate_request, today) :
                        /\ certificates' = r.certificates
                        /\ certificate_history' = r.certificate_history
                        /\ files' = r.files
                        /\ tasks' = [ tasks EXCEPT ![k] =
                               [ @ EXCEPT
                                   !.pc = IF r.outcome = "ok" THEN "created" ELSE "failed",
                                   !.called = TRUE, !.outcome = r.outcome,
                                   !.added = Len(r.certificates) - Len(certificates) ] ]
    /\ UNCHANGED <<today, arcVars, txVars, fnVars, genVars, svcVars, apiVars, botVars>>

\* await message.answer(...): the success message followed by the group
\* notification, or the error message
ReplyConfirmation(k) ==
    /\ tasks[k].pc \in { "created", "failed" }
    /\ tasks' = [ tasks EXCEPT ![k].pc = "replied" ]
    /\ UNCHANGED <<today, arcVars, txVars, fnVars, genVars, dbVars, svcVars, apiVars, botVars>>

\* await state.clear(), the last statement of both paths
ClearConfirmation(k) ==
    /\ tasks[k].pc = "replied"
    /\ \E u \in AdminUsers :
           /\ fsm' = [ fsm EXCEPT ![u] = "None" ]
           /\ fsm_data' = [ fsm_data EXCEPT ![u] = NoData ]
    /\ tasks' = [ tasks EXCEPT ![k].pc = "finished" ]
    /\ UNCHANGED <<today, arcVars, txVars, fnVars, genVars, dbVars, svcVars, apiVars, upd>>

\* the dialog as process_certificate_data leaves it for a valid form, on the
\* stores of InitBot, with the confirmation queued twice
InitConfirm ==
    /\ today \in TodaySet
    /\ InitGenVars /\ InitArcVars /\ InitTxVars /\ InitFnVars /\ InitSvcVars /\ InitApiVars
    /\ files = {}
    /\ \E r \in { [ certificates |-> << >>, certificate_history |-> << >> ] }
                \cup { repo_create_certificate(<< >>, << >>, d) :
                           d \in { x \in RepoData(today) :
                                      /\ x.certificate_id[1] = "A" } } :
           /\ certificates = r.certificates
           /\ certificate_history = r.certificate_history
    /\ upd = NoUpdate
    /\ \E u \in AdminUsers, form \in Forms :
           /\ form.ok
           /\ validate_certificate_data(form, today) = {}
           /\ fsm = [ v \in Users |->
                        IF v = u THEN awaiting_confirmation ELSE "None" ]
           /\ fsm_data = [ v \in Users |->
                   IF v = u
                   THEN [ NoData EXCEPT
                            !.form = form,
                            !.has_existing =
                                Len(search_certificates(certificates, form.domain,
                                                        "", TRUE)) > 0 ]
                   ELSE NoData ]
    /\ tasks = [ k \in Runs |-> [ NoTask EXCEPT !.pc = "queued" ] ]

NextConfirm ==
    \/ \E k \in Runs : DispatchConfirmation(k)
    \/ \E k \in Runs : RunConfirmation(k)
    \/ \E k \in Runs : ReplyConfirmation(k)
    \/ \E k \in Runs : ClearConfirmation(k)

SpecConfirm == InitConfirm /\ [][NextConfirm]_vars

------------------------------------------------------------------------------
(* SpecIds: two callers of a creation on one relational store. Each reads    *)
(* the stored ids (service.py:54), then inserts a certificate whose id was    *)
(* not among those it read; the service's own creation runs next to them.     *)

\* existing_ids = self.certificate_repo.get_existing_certificate_ids()
ReadExistingIds(k) ==
    /\ tasks[k].pc = "queued"
    /\ tasks' = [ tasks EXCEPT ![k] =
           [ @ EXCEPT !.pc = "read",
                      !.existing_ids = get_existing_certificate_ids(certificates) ] ]
    /\ UNCHANGED <<today, arcVars, txVars, fnVars, genVars, dbVars, svcVars, apiVars, botVars>>

\* CertificateRepository.create_certificate with an id that was not in the
\* set the caller read, on the store as it is now
InsertCertificate(k) ==
    /\ tasks[k].pc = "read"
    /\ \E certificate_data \in RepoData(today) :
           /\ certificate_data.certificate_id \notin tasks[k].existing_ids
           /\ LET r == repo_create_certificate(certificates, certificate_history,
                                               certificate_data)
              IN  /\ certificates' = r.certificates
                  /\ certificate_history' = r.certificate_history
                  /\ tasks' = [ tasks EXCEPT ![k] =
                         [ @ EXCEPT
                             !.pc = "finished", !.called = TRUE,
                             !.outcome = r.raised,
                             !.certificate_id = certificate_data.certificate_id,
                             !.added = Len(r.certificates) - Len(certificates) ] ]
    /\ UNCHANGED <<today, arcVars, txVars, fnVars, genVars, files, svcVars, apiVars, botVars>>

\* the caller goes on to its next creation
NextCreation(k) ==
    /\ tasks[k].pc = "finished"
    /\ Len(certificates) < MaxRows
    /\ tasks' = [ tasks EXCEPT ![k] = [ NoTask EXCEPT !.pc = "queued" ] ]
    /\ UNCHANGED <<today, arcVars, txVars, fnVars, genVars, dbVars, svcVars, apiVars, botVars>>

InitIds ==
    /\ today \in TodaySet
    /\ InitGenVars /\ InitArcVars /\ InitTxVars /\ InitFnVars /\ InitDbVars /\ InitSvcVars /\ InitApiVars /\ InitBotVars
    /\ tasks = [ k \in Runs |-> [ NoTask EXCEPT !.pc = "queued" ] ]

NextIds ==
    \/ \E k \in Runs : ReadExistingIds(k)
    \/ \E k \in Runs : InsertCertificate(k)
    \/ \E k \in Runs : NextCreation(k)
    \/ CreateCertificate

SpecIds == InitIds /\ [][NextIds]_vars

------------------------------------------------------------------------------
(* Properties of SpecIds *)

\* C30: in every reachable state of the relational store no two certificate
\* rows share a certificate_id, also when two creations interleave so that
\* each reads the existing ids before the other inserts; a creation whose id
\* is already stored fails with an error and adds no row.
C30_UniqueCertificateId ==
    /\ []( \A i, j \in 1..Len(certificates) :
               certificates[i].certificate_id = certificates[j].certificate_id
                   => i = j )
    /\ [][ \A k \in Runs :
               ( /\ tasks[k].pc = "read"
                 /\ tasks'[k].pc = "finished"
                 /\ tasks'[k].certificate_id
                        \in get_existing_certificate_ids(certificates) ) =>
                   /\ tasks'[k].outcome # "none"
                   /\ certificates' = certificates
         ]_vars

\* both callers read the ids of the empty table, one inserted an id, and the
\* insertion of the same id by the other failed and added nothing
C30_Witness ==
    \E k \in Runs, j \in Runs :
        /\ k # j
        /\ tasks[k].pc = "finished" /\ tasks[j].pc = "finished"
        /\ tasks[k].existing_ids = {} /\ tasks[j].existing_ids = {}
        /\ tasks[k].certificate_id = tasks[j].certificate_id
        /\ tasks[k].outcome = "none" /\ tasks[k].added = 1
        /\ tasks[j].outcome = "IntegrityError" /\ tasks[j].added = 0
        /\ Len(certificates) = 1

------------------------------------------------------------------------------
(* Properties of SpecConfirm *)

\* C26: a create confirmation delivered twice. When the two handler runs
\* interleave, both can see the dialog in awaiting_confirmation (the state is
\* cleared only after the replies were sent), and two certificates are
\* created from the one confirmed dialog: each of two runs that called
\* create_certificate added a row. A second delivery dispatched after the
\* first run finished creates nothing.
C26_DuplicateConfirmation ==
    /\ []( (\A k \in Runs : tasks[k].called) =>
               (\A k \in Runs : tasks[k].added = 1) )
    /\ [][ \A k \in Runs :
               ( /\ tasks[k].pc = "queued"
                 /\ tasks'[k].pc # "queued"
                 /\ \E j \in Runs \ { k } : tasks[j].pc = "finished" ) =>
                   tasks'[k].pc = "skipped"
         ]_vars
    /\ []( \A k \in Runs :
               tasks[k].pc = "skipped" => ~ tasks[k].called /\ tasks[k].added = 0 )

\* both runs passed the state filter and called create_certificate
BothRunsCalledCreate ==
    \A k \in Runs : tasks[k].pc = "finished" /\ tasks[k].called

\* the second delivery was dispatched after the first run had finished
SecondDeliverySkipped ==
    \E k \in Runs : tasks[k].pc = "skipped"

------------------------------------------------------------------------------
(* Properties of SpecBot *)

\* the step handles one update
Handled == upd'.n = upd.n + 1

\* the dialogs and the stores are as before the step
NothingDone ==
    UNCHANGED <<fsm, fsm_data, certificates, certificate_history, files>>

\* C8: access gate.  A message or callback of a private chat whose sender is
\* in neither the admin set nor the verify set executes no handler; an update
\* of a group or supergroup chat executes no handler and gets no reply,
\* whatever the role of its sender.
C8_AccessGate ==
    [][ Handled =>
          /\ ( /\ upd'.chat_type = "private"
               /\ upd'.user \notin AdminUsers
               /\ upd'.user \notin VerifyUsers )
             => ( ~ upd'.executed /\ upd'.calls = {} /\ NothingDone )
          /\ upd'.chat_type \in { "group", "supergroup" }
             => ( /\ ~ upd'.executed
                  /\ upd'.calls = {}
                  /\ upd'.replies = {}
                  /\ NothingDone )
      ]_vars

\* a stranger's message in a private chat was refused by AccessMiddleware
\* with its reply
C8_Witness ==
    /\ upd.n > 0
    /\ upd.kind = "message"
    /\ upd.chat_type = "private"
    /\ upd.user \notin AdminUsers \cup VerifyUsers
    /\ upd.refused_by = "AccessMiddleware"
    /\ upd.replies = { "access_denied" }
    /\ ~ upd.executed

\* an admin's message in a group chat was dropped without a reply
GroupDropped ==
    /\ upd.n > 0
    /\ upd.chat_type \in { "group", "supergroup" }
    /\ upd.user \in AdminUsers
    /\ upd.refused_by = "AccessMiddleware"
    /\ upd.replies = {}

\* C9: only admins change the ledger.  The service's create_certificate and
\* edit_certificate_dates are called only while an update of an admin is
\* handled, the stored certificates and their files change only then (a
\* lookup of a verify user adds its 'verified' row to the history), and an
\* update of a verify-only user never reaches a handler of the create or
\* edit routers.
C9_OnlyAdmins ==
    [][ Handled =>
          /\ upd'.calls \cap { "create_certificate", "edit_certificate_dates" } # {}
             => upd'.user \in AdminUsers
          /\ ( upd'.executed /\ upd'.router \in { "admin", "edit" } )
             => upd'.user \in AdminUsers
          /\ <<certificates, files>>' # <<certificates, files>>
             => upd'.user \in AdminUsers
          /\ ( upd'.user \in VerifyUsers \ AdminUsers
               /\ upd'.router \in { "admin", "edit" } )
             => ( /\ ~ upd'.executed
                  /\ upd'.refused_by \in { "AccessMiddleware",
                                           "AdminRequiredMiddleware" }
                  /\ NothingDone )
      ]_vars

\* an admin confirmed a creation and the handler called create_certificate
C9_Witness ==
    /\ upd.executed
    /\ upd.user \in AdminUsers
    /\ upd.handler = "process_confirmation"
    /\ "create_certificate" \in upd.calls

\* a verify-only user pressed the create button and was refused by the
\* middleware of the admin router
VerifyUserRefused ==
    /\ upd.n > 0
    /\ upd.user \in VerifyUsers \ AdminUsers
    /\ upd.router = "admin"
    /\ upd.refused_by = "AdminRequiredMiddleware"
    /\ upd.replies = { "role_denied" }

\* the routers that setup_handlers includes, in the order of inclusion
IncludedRouters ==
    [ i \in 1..Len(Handlers) |-> Handlers[i].router ]

\* C12: the bootstrap registers the create, edit, verify/search and common
\* routers, the admin-scoped ones ahead of the verify router and the common
\* router last; an admin who sends the edit-certificate button while idle
\* enters the edit dialog (state waiting_for_certificate_id) and does not
\* reach the catch-all unknown-message handler.
C12_EditRouterRegistered ==
    [][ ( /\ Handled
          /\ upd'.kind = "message"
          /\ upd'.chat_type = "private"
          /\ upd'.user \in AdminUsers
          /\ upd'.label = "EDIT_CERTIFICATE"
          /\ fsm[upd'.user] = "None" )
        => ( /\ \E i \in 1..Len(IncludedRouters) : IncludedRouters[i] = "edit"
             /\ upd'.executed
             /\ upd'.handler # "unknown_message"
             /\ upd'.router = "edit"
             /\ fsm'[upd'.user] = "EditCertificateStates:waiting_for_certificate_id" )
      ]_vars

\* an idle admin sent the edit-certificate button in a private chat
C12_EditButtonSent ==
    /\ upd.kind = "message"
    /\ upd.chat_type = "private"
    /\ upd.user \in AdminUsers
    /\ upd.label = "EDIT_CERTIFICATE"
    /\ upd.handler = "unknown_message"

\* the update is a message of an allowed user in a private chat
AllowedPrivateMessage(u) ==
    /\ u.kind = "message"
    /\ u.chat_type = "private"
    /\ u.user \in AdminUsers \cup VerifyUsers

\* C13: /cancel sent by an allowed user in a private chat leaves the chat
\* idle, whatever dialog state it was sent in.
C13_CancelClears ==
    [][ ( Handled /\ AllowedPrivateMessage(upd') /\ upd'.label = "/cancel" )
        => fsm'[upd'.user] = "None"
      ]_vars

\* /cancel was sent in a dialog state and went to the handler of that state
C13_CancelInDialog ==
    /\ AllowedPrivateMessage(upd)
    /\ upd.label = "/cancel"
    /\ upd.executed
    /\ upd.handler # "cancel_command"

\* C27: in the create dialog the service's create_certificate is invoked only
\* from the state awaiting_confirmation on a message whose text is the confirm
\* label; that state is reached only by a data message for which the
\* aggregate validator returned no errors; in awaiting_confirmation the cancel
\* label clears the state and creates nothing, and any other text keeps the
\* state and creates nothing.
C27_ConfirmOnly ==
    [][ Handled =>
            LET u == upd'.user
                in_confirmation ==
                    /\ AllowedPrivateMessage(upd')
                    /\ is_admin(u)
                    /\ fsm[u] = awaiting_confirmation
                nothing_created ==
                    /\ "create_certificate" \notin upd'.calls
                    /\ certificates' = certificates
            IN  /\ "create_certificate" \in upd'.calls =>
                       /\ in_confirmation
                       /\ upd'.label = "CONFIRM"
                       /\ upd'.handler = "process_confirmation"
                /\ (fsm'[u] = awaiting_confirmation /\ fsm[u] # awaiting_confirmation) =>
                       /\ upd'.handler = "process_certificate_data"
                       /\ fsm_data'[u].form.ok
                       /\ validate_certificate_data(fsm_data'[u].form, today) = {}
                /\ (in_confirmation /\ upd'.label = "CANCEL") =>
                       /\ fsm'[u] = "None"
                       /\ nothing_created
                /\ (in_confirmation /\ upd'.label \notin { "CONFIRM", "CANCEL" }) =>
                       /\ fsm'[u] = awaiting_confirmation
                       /\ nothing_created
      ]_vars

\* C29: the duplicate check of the data step and the service's check at
\* creation agree on an unchanged store: the has_existing stored in the dialog
\* data is true exactly when create_certificate's check finds an active
\* certificate of the form's domain, that is when an active row with that
\* same domain is stored.
C29_DuplicateChecksAgree ==
    [][ ( /\ Handled
          /\ upd'.handler = "process_certificate_data"
          /\ fsm'[upd'.user] = awaiting_confirmation
          /\ certificates' = certificates ) =>
            LET domain == fsm_data'[upd'.user].form.domain
                at_creation ==
                    Len(get_certificates_by_domain(certificates', domain, TRUE)) > 0
            IN  /\ fsm_data'[upd'.user].has_existing = at_creation
                /\ at_creation =
                       (\E i \in 1..Len(certificates') :
                            /\ certificates'[i].domain = domain
                            /\ certificates'[i].is_active)
      ]_vars

\* the data step warned about a certificate of another domain
WarnedAboutOtherDomain ==
    \E u \in Users :
        /\ fsm[u] = awaiting_confirmation
        /\ fsm_data[u].has_existing
        /\ \A i \in 1..Len(certificates) :
               certificates[i].domain # fsm_data[u].form.domain

\* the create button was sent in the state awaiting_confirmation
CreateButtonInConfirmation ==
    /\ upd.handler = "start_create_certificate"
    /\ upd.n = 3
    /\ fsm[upd.user] = "CreateCertificateStates:waiting_for_certificate_data"
    /\ fsm_data[upd.user] = NoData

\* the service methods that end a dialog: creation, date edit, lookup, search
TerminalCalls ==
    { "create_certificate", "edit_certificate_dates", "verify_certificate" }

\* the dialog steps that call them
TerminalSteps ==
    { "process_confirmation", "process_certificate_verification",
      "process_domain_search", "process_inn_search" }

\* C14: a dialog step that calls the service leaves the chat idle, when the
\* call succeeds and when it fails (validation error, not found, unexpected
\* error), in the create, edit, verify and search dialogs.
C14_ClearedOnFailure ==
    [][ ( /\ Handled
          /\ upd'.executed
          /\ upd'.handler \in TerminalSteps
          /\ upd'.calls \cap (TerminalCalls \cup { "search_certificates" }) # {} )
        => fsm'[upd'.user] = "None"
      ]_vars

\* a lookup of the verify dialog failed
C14_LookupFailed ==
    /\ upd.executed
    /\ upd.handler = "process_certificate_verification"
    /\ "verify_certificate" \in upd.calls
    /\ upd.replies \cap { "not_found", "validation_error" } # {}

-----------------------------------------------------------------------------
(* SpecFn: single calls of the pure functions of core/models.py and          *)
(* core/validators.py                                                        *)

\* Certificate(...).status_info
StatusInfo ==
    /\ fn.op = "none"
    /\ \E valid_from \in StatusDates, valid_to \in StatusDates, is_active \in BOOLEAN :
           fn' = [ op |-> "status_info", valid_from |-> valid_from,
                   valid_to |-> valid_to, is_active |-> is_active,
                   result |-> status_info(valid_from, valid_to, is_active, today) ]
    /\ UNCHANGED <<today, arcVars, taskVars, genVars, dbVars, txVars, svcVars, apiVars, botVars>>

\* CertificateRequest(valid_from=..., valid_to=...)
ValidatePeriod ==
    /\ fn.op = "none"
    /\ \E valid_from \in PeriodDates, valid_to \in PeriodDates :
           fn' = [ op |-> "validate_period", valid_from |-> valid_from,
                   valid_to |-> valid_to,
                   result |-> validate_period(valid_from, valid_to, today) ]
    /\ UNCHANGED <<today, arcVars, taskVars, genVars, dbVars, txVars, svcVars, apiVars, botVars>>

\* EditCertificateDatesRequest(new_valid_from=..., new_valid_to=...)
ValidateDates ==
    /\ fn.op = "none"
    /\ \E new_valid_from \in PeriodDates, new_valid_to \in PeriodDates :
           fn' = [ op |-> "validate_dates", valid_from |-> new_valid_from,
                   valid_to |-> new_valid_to,
                   result |-> validate_dates(new_valid_from, new_valid_to, today) ]
    /\ UNCHANGED <<today, arcVars, taskVars, genVars, dbVars, txVars, svcVars, apiVars, botVars>>

\* INNValidator().validate(inn)
ValidateInn ==
    /\ fn.op = "none"
    /\ \E inn \in InnTexts :
           fn' = [ op |-> "inn_validate", inn |-> inn, result |-> inn_validate(inn) ]
    /\ UNCHANGED <<today, arcVars, taskVars, genVars, dbVars, txVars, svcVars, apiVars, botVars>>

\* CertificateIDGenerator().validate_id_format(id) and
\* CertificateIDValidator().validate(id) on the same text
ValidateId ==
    /\ fn.op = "none"
    /\ \E id \in IdTexts :
           fn' = [ op |-> "validate_id", id |-> id,
                   generator |-> validate_id_format(id),
                   validator |-> id_validate(id) ]
    /\ UNCHANGED <<today, arcVars, taskVars, genVars, dbVars, txVars, svcVars, apiVars, botVars>>

\* the remark of the verify handler for a certificate whose period ends
\* after it starts, next to the status of the same certificate
VerificationRemark ==
    /\ fn.op = "none"
    /\ \E valid_from \in StatusDates, valid_to \in StatusDates, is_active \in BOOLEAN :
           /\ DateLT(valid_from, valid_to)
           /\ fn' = [ op |-> "verification_remark", valid_from |-> valid_from,
                      valid_to |-> valid_to, is_active |-> is_active,
                      remark |-> verification_remark(valid_from, valid_to,
                                                     is_active, today),
                      status |-> status_info(valid_from, valid_to,
                                             is_active, today).status ]
    /\ UNCHANGED <<today, arcVars, taskVars, genVars, dbVars, txVars, svcVars, apiVars, botVars>>

\* Settings(notification_group=v)
SettingsNotificationGroup ==
    /\ fn.op = "none"
    /\ \E v \in NotificationGroups :
           fn' = [ op |-> "settings", notification_group |-> v,
                   result |-> validate_notification_group(v) ]
    /\ UNCHANGED <<today, arcVars, taskVars, genVars, dbVars, txVars, svcVars, apiVars, botVars>>

InitFn ==
    /\ today \in TodaySet
    /\ InitGenVars /\ InitArcVars /\ InitTaskVars /\ InitTxVars /\ InitFnVars /\ InitDbVars /\ InitSvcVars /\ InitApiVars /\ InitBotVars

NextFn ==
    \/ StatusInfo
    \/ ValidatePeriod
    \/ ValidateDates
    \/ ValidateInn
    \/ ValidateId
    \/ VerificationRemark
    \/ SettingsNotificationGroup

SpecFn == InitFn /\ [][NextFn]_vars

\* C17: status_info returns exactly one of six statuses, chosen in this
\* order: inactive when is_active is false, whatever the dates; not_started
\* when today < valid_from; expired when today > valid_to; otherwise, with
\* days_left = valid_to - today in days, expiring_very_soon when
\* days_left <= 7, expiring_soon when 8 <= days_left <= 30, active when
\* days_left > 30; days_left is reported 0 for inactive, not_started, expired.
C17_StatusInfo ==
    fn.op = "status_info" =>
        LET d == Days(fn.valid_to) - Days(today)
            before == Days(today) < Days(fn.valid_from)
            after == Days(today) > Days(fn.valid_to)
            expected ==
                CASE ~ fn.is_active -> "inactive"
                  [] fn.is_active /\ before -> "not_started"
                  [] fn.is_active /\ ~ before /\ after -> "expired"
                  [] fn.is_active /\ ~ before /\ ~ after /\ d <= 7 ->
                         "expiring_very_soon"
                  [] fn.is_active /\ ~ before /\ ~ after /\ 8 <= d /\ d <= 30 ->
                         "expiring_soon"
                  [] fn.is_active /\ ~ before /\ ~ after /\ d > 30 -> "active"
        IN  /\ fn.result.status = expected
            /\ fn.result.days_left =
                   IF expected \in { "inactive", "not_started", "expired" }
                   THEN 0 ELSE d

\* an active certificate that ends in exactly 7 days is expiring very soon
C17_Witness ==
    /\ fn.op = "status_info"
    /\ fn.is_active
    /\ Days(fn.valid_to) - Days(today) = 7
    /\ fn.result = [ status |-> "expiring_very_soon", days_left |-> 7 ]

\* the span of the period in days is at most 5 x 365.25
WithinFiveYears(valid_from, valid_to) ==
    100 * (Days(valid_to) - Days(valid_from)) <= 5 * 36525

\* C18: a creation request is accepted exactly when valid_from >= today,
\* valid_to > valid_from and the span in days is at most 5 x 365.25, and is
\* otherwise rejected with a period error; a date-edit request is accepted
\* exactly when new_valid_to > new_valid_from and the span is at most
\* 5 x 365.25 days, a start date before today included.
C18_PeriodRules ==
    /\ fn.op = "validate_period" =>
           LET accepted == /\ Days(fn.valid_from) >= Days(today)
                           /\ Days(fn.valid_to) > Days(fn.valid_from)
                           /\ WithinFiveYears(fn.valid_from, fn.valid_to)
           IN  /\ accepted <=> fn.result = ""
               /\ ~ accepted =>
                      fn.result \in { "PeriodValidationError:end_not_after_start",
                                      "PeriodValidationError:over_5_years",
                                      "PeriodValidationError:start_in_past" }
    /\ fn.op = "validate_dates" =>
           ( fn.result = "" <=>
                 /\ Days(fn.valid_to) > Days(fn.valid_from)
                 /\ WithinFiveYears(fn.valid_from, fn.valid_to) )

\* a date edit whose period starts before today and spans exactly 1826 days
\* is accepted
C18_Witness ==
    /\ fn.op = "validate_dates"
    /\ Days(fn.valid_from) < Days(today)
    /\ Days(fn.valid_to) - Days(fn.valid_from) = 1826
    /\ fn.result = ""

\* a creation request of the same kind of period is rejected
PastStartRejected ==
    /\ fn.op = "validate_period"
    /\ Days(fn.valid_from) < Days(today)
    /\ Days(fn.valid_to) - Days(fn.valid_from) = 1826
    /\ fn.result = "PeriodValidationError:start_in_past"

\* (sum of the first Len(weights) digits times the weights) mod 11 mod 10
RECURSIVE WeightedDigits(_, _)
WeightedDigits(digits, weights) ==
    IF Len(weights) = 0 THEN 0
    ELSE LET k == Len(weights)
         IN  WeightedDigits(digits, SubSeq(weights, 1, k - 1))
                 + DigitValue(digits[k]) * weights[k]

CheckDigit(digits, weights) == (WeightedDigits(digits, weights) % 11) % 10

SberbankAccepted ==
    fn.op = "inn_validate" /\ fn.inn = Inn10 /\ fn.result = "True"

\* C20: the two format checkers of certificate ids accept the same language:
\* for every string validate_id_format and CertificateIDValidator.validate
\* return the same result, true exactly for 23-character strings of four
\* 5-character groups over [A-Z0-9] joined by hyphens.
C20_SameLanguage ==
    fn.op = "validate_id" =>
        /\ fn.generator = fn.validator
        /\ fn.generator <=> WellFormedId(fn.id)

\* a hyphen of a well-formed id is replaced by an underscore: both reject
C20_Witness ==
    /\ fn.op = "validate_id"
    /\ Len(fn.id) = 23
    /\ \E i \in { 6, 12, 18 } : fn.id[i] = "_"
    /\ \A i \in 1..23 : i \notin { 6, 12, 18 } => fn.id[i] \in CharSet
    /\ ~ fn.generator
    /\ ~ fn.validator

\* a well-formed id: both accept
BothAccept ==
    fn.op = "validate_id" /\ WellFormedId(fn.id) /\ fn.generator /\ fn.validator

\* C25: Settings construction rejects every notification-group id that is
\* not negative: a settings object exists only with notification_group < 0.
C25_NegativeGroup ==
    (fn.op = "settings" /\ fn.result = "ok") => fn.notification_group < 0

\* Settings was constructed with the notification group 0
GroupZero ==
    /\ fn.op = "settings"
    /\ fn.notification_group = 0

\* C28: the remark of the verify handler is consistent with status_info for
\* every certificate and date: the deactivated remark only for the status
\* inactive, the expired remark only for expired, the expires-within-7-days
\* remark only for expiring_very_soon, the expires-in-N-days remark only for
\* expiring_soon, the certificate-is-valid remark only for active.
C28_RemarkMatchesStatus ==
    fn.op = "verification_remark" =>
        /\ fn.remark = "deactivated" => fn.status = "inactive"
        /\ fn.remark = "expired" => fn.status = "expired"
        /\ fn.remark = "expires_within_days" => fn.status = "expiring_very_soon"
        /\ fn.remark = "expires_in_days" => fn.status = "expiring_soon"
        /\ fn.remark = "valid" => fn.status = "active"

\* the remark of an active certificate that has not started yet
RemarkBeforeStart ==
    /\ fn.op = "verification_remark"
    /\ fn.is_active
    /\ fn.status = "not_started"

=============================================================================
